---------------------------- MODULE Spec2Model ----------------------------
(***************************************************************************)
(* Model of the commit-message correction pipeline of                      *)
(* githooks/cli/commitmint.py.                                             *)
(*                                                                         *)
(* A Python str is a sequence of one-character strings.  The regular       *)
(* expressions of the source are written as syntax trees and run by a      *)
(* backtracking matcher that yields the matches in the priority order of   *)
(* Python's re module, so that re.match is the first of them.              *)
(***************************************************************************)
EXTENDS Naturals, Integers, Sequences, FiniteSets, TLC

(***************************************************************************)
(* Bounds of the explored input space.                                     *)
(***************************************************************************)
MaxWords == 2

(***************************************************************************)
(* Characters and str methods.                                             *)
(***************************************************************************)
LowerLetters == <<"a", "b", "c", "d", "e", "f", "g", "h", "i", "j", "k", "l", "m", "n", "o", "p", "q", "r", "s", "t", "u", "v", "w", "x", "y", "z">>

UpperLetters == <<"A", "B", "C", "D", "E", "F", "G", "H", "I", "J", "K", "L", "M", "N", "O", "P", "Q", "R", "S", "T", "U", "V", "W", "X", "Y", "Z">>

Digits == {"0", "1", "2", "3", "4", "5", "6", "7", "8", "9"}

Range(f) == {f[i] : i \in DOMAIN f}

\* \w of a str pattern, on the ASCII characters.
WordChars == Range(LowerLetters) \cup Range(UpperLetters) \cup Digits \cup {"_"}

\* \s of a str pattern, and the characters str.strip() removes.
SpaceChars == {" ", "\t", "\n", "\r", "\f"}

\* "." without re.DOTALL matches everything but the newline.
Newline == {"\n"}

upper_char(c) ==
    IF c \in Range(LowerLetters)
    THEN UpperLetters[CHOOSE i \in 1..26 : LowerLetters[i] = c]
    ELSE c

lower_char(c) ==
    IF c \in Range(UpperLetters)
    THEN LowerLetters[CHOOSE i \in 1..26 : UpperLetters[i] = c]
    ELSE c

\* str.upper()
upper(s) == [i \in 1..Len(s) |-> upper_char(s[i])]

\* str.lower()
lower(s) == [i \in 1..Len(s) |-> lower_char(s[i])]

\* s[at:].startswith(sub), at counted from 1
MatchesAt(s, sub, at) ==
    /\ at + Len(sub) - 1 <= Len(s)
    /\ \A j \in 1..Len(sub) : s[at + j - 1] = sub[j]

\* str.startswith
startswith(s, sub) == MatchesAt(s, sub, 1)

\* the operator `sub in s` on str
contains(s, sub) == \E at \in 1..(Len(s) + 1) : MatchesAt(s, sub, at)

\* str.strip()
strip(s) ==
    LET keep == {i \in 1..Len(s) : s[i] \notin SpaceChars}
        Min(S) == CHOOSE x \in S : \A y \in S : x <= y
        Max(S) == CHOOSE x \in S : \A y \in S : x >= y
    IN IF keep = {} THEN <<>> ELSE SubSeq(s, Min(keep), Max(keep))

\* s[from:], from counted from 1
DropTo(s, from) == SubSeq(s, from, Len(s))

(***************************************************************************)
(* Regular expressions: syntax trees.                                      *)
(***************************************************************************)
Chr(cs) == [k |-> "chr", cs |-> cs, neg |-> FALSE]

NotChr(cs) == [k |-> "chr", cs |-> cs, neg |-> TRUE]

Lit(str) == [k |-> "lit", str |-> str]

Cat(rs) == [k |-> "cat", rs |-> rs]

Alt(rs) == [k |-> "alt", rs |-> rs]

Star(r) == [k |-> "star", r |-> r, greedy |-> TRUE]

LazyStar(r) == [k |-> "star", r |-> r, greedy |-> FALSE]

Plus(r) == Cat(<<r, Star(r)>>)

Opt(r) == [k |-> "opt", r |-> r]

Grp(i, r) == [k |-> "grp", i |-> i, r |-> r]

Ref(i) == [k |-> "ref", i |-> i]

Bol == [k |-> "bol"]

Eol == [k |-> "eol"]

\* \b
Wb == [k |-> "wb"]

(***************************************************************************)
(* The matcher.  A match state is the position of the next character and   *)
(* the spans of the groups; Run yields every way r matches s from st,      *)
(* most preferred first.                                                   *)
(***************************************************************************)
None == <<0, 0>>

StartState == [p |-> 1, g |-> <<None, None, None>>]

RECURSIVE Run(_, _, _)
RECURSIVE Then(_, _, _)
RECURSIVE RunCat(_, _, _, _)
RECURSIVE RunAlt(_, _, _, _)

\* r run from each state of sts, the results in the order of sts
Then(r, s, sts) ==
    IF sts = <<>> THEN <<>>
    ELSE IF Len(sts) = 1 THEN Run(r, s, sts[1])
    ELSE LET half == Len(sts) \div 2
         IN Then(r, s, SubSeq(sts, 1, half)) \o Then(r, s, SubSeq(sts, half + 1, Len(sts)))

RunCat(rs, i, s, sts) ==
    IF i > Len(rs) \/ sts = <<>> THEN sts
    ELSE RunCat(rs, i + 1, s, Then(rs[i], s, sts))

RunAlt(rs, i, s, st) ==
    IF i > Len(rs) THEN <<>>
    ELSE Run(rs[i], s, st) \o RunAlt(rs, i + 1, s, st)

Run(r, s, st) ==
    CASE r.k = "chr" ->
           IF st.p <= Len(s) /\ ((s[st.p] \in r.cs) # r.neg)
           THEN <<[st EXCEPT !.p = @ + 1]>>
           ELSE <<>>
      [] r.k = "lit" ->
           IF MatchesAt(s, r.str, st.p)
           THEN <<[st EXCEPT !.p = @ + Len(r.str)]>>
           ELSE <<>>
      [] r.k = "cat" -> RunCat(r.rs, 1, s, <<st>>)
      [] r.k = "alt" -> RunAlt(r.rs, 1, s, st)
      [] r.k = "star" /\ r.r.k = "chr" ->
           \* a repeated character class: the run of matching characters
           \* from st.p, given up one by one (greedy) or taken one by one
           LET stop == {x \in st.p..Len(s) : (s[x] \in r.r.cs) = r.r.neg}
               end == IF stop = {} THEN Len(s) + 1
                      ELSE CHOOSE x \in stop : \A y \in stop : x <= y
           IN [j \in 1..(end - st.p + 1) |->
                 [st EXCEPT !.p = IF r.greedy THEN end - (j - 1) ELSE st.p + (j - 1)]]
      [] r.k = "star" /\ r.r.k # "chr" ->
           LET more == Then(r, s, SelectSeq(Run(r.r, s, st), LAMBDA x : x.p > st.p))
           IN IF r.greedy THEN more \o <<st>> ELSE <<st>> \o more
      [] r.k = "opt" -> Run(r.r, s, st) \o <<st>>
      [] r.k = "grp" ->
           LET res == Run(r.r, s, st)
           IN [j \in 1..Len(res) |-> [res[j] EXCEPT !.g[r.i] = <<st.p, res[j].p>>]]
      [] r.k = "ref" ->
           LET span == st.g[r.i]
               str == SubSeq(s, span[1], span[2] - 1)
           IN IF span # None /\ MatchesAt(s, str, st.p)
              THEN <<[st EXCEPT !.p = @ + Len(str)]>>
              ELSE <<>>
      [] r.k = "bol" -> IF st.p = 1 THEN <<st>> ELSE <<>>
      [] r.k = "eol" ->
           IF st.p = Len(s) + 1 \/ (st.p = Len(s) /\ s[st.p] = "\n")
           THEN <<st>>
           ELSE <<>>
      [] r.k = "wb" ->
           IF (st.p > 1 /\ s[st.p - 1] \in WordChars) # (st.p <= Len(s) /\ s[st.p] \in WordChars)
           THEN <<st>>
           ELSE <<>>

\* re.match(r, s): the most preferred match at the start of s, or no match.
re_match(r, s) ==
    LET res == Run(r, s, StartState)
    IN IF res = <<>> THEN [ok |-> FALSE, p |-> 0, g |-> StartState.g]
       ELSE [ok |-> TRUE, p |-> res[1].p, g |-> res[1].g]

\* re.search(r, s): the most preferred match at the leftmost position of s
\* where r matches, or no match.
re_search(r, s) ==
    LET starts == {x \in 1..(Len(s) + 1) : Run(r, s, [StartState EXCEPT !.p = x]) # <<>>}
    IN IF starts = {} THEN [ok |-> FALSE, p |-> 0, g |-> StartState.g]
       ELSE LET at == CHOOSE x \in starts : \A y \in starts : x <= y
                res == Run(r, s, [StartState EXCEPT !.p = at])
            IN [ok |-> TRUE, p |-> res[1].p, g |-> res[1].g]

\* m.group(i) of a group that took part in the match
group(s, m, i) == SubSeq(s, m.g[i][1], m.g[i][2] - 1)

\* re.sub(r, "\1", s) for a pattern r that starts with ^ and matches no
\* empty string: only the match at the start of s can be replaced.
re_sub_group1(r, s) ==
    LET m == re_match(r, s)
    IN IF m.ok THEN group(s, m, 1) \o DropTo(s, m.p) ELSE s

(***************************************************************************)
(* The patterns of commitmint.py.                                          *)
(***************************************************************************)
W == Chr(WordChars)

S == Chr(SpaceChars)

Dot == NotChr(Newline)

\* (?:\(.*?\))
ParenScope == Cat(<<Lit(<<"(">>), LazyStar(Dot), Lit(<<")">>)>>)

ConventionalTypes ==
    << <<"f", "e", "a", "t">>, <<"f", "i", "x">>, <<"d", "o", "c", "s">>,
       <<"s", "t", "y", "l", "e">>, <<"r", "e", "f", "a", "c", "t", "o", "r">>,
       <<"t", "e", "s", "t">>, <<"c", "h", "o", "r", "e">>, <<"c", "i">> >>

\* ^(\w+)\(([^)]+)\):\s*(.*)$
ScopeHeaderPattern ==
    Cat(<<Bol, Grp(1, Plus(W)), Lit(<<"(">>), Grp(2, Plus(NotChr({")"}))),
          Lit(<<")">>), Lit(<<":">>), Star(S), Grp(3, Star(Dot)), Eol>>)

\* ^(\w+\(.*?\):)\s*\1
DuplicateHeaderPattern ==
    Cat(<<Bol, Grp(1, Cat(<<Plus(W), Lit(<<"(">>), LazyStar(Dot), Lit(<<")">>), Lit(<<":">>)>>)),
          Star(S), Ref(1)>>)

\* ^(\w+(?:\(.*?\))?(!)?:\s*)(.*)$
TicketHeaderPattern ==
    Cat(<<Bol,
          Grp(1, Cat(<<Plus(W), Opt(ParenScope), Opt(Grp(2, Lit(<<"!">>))), Lit(<<":">>), Star(S)>>)),
          Grp(3, Star(Dot)), Eol>>)

\* ^(feat|fix|docs|style|refactor|test|chore|ci)(?:\(.*?\))?(!)?:
ConventionalTypePattern ==
    Cat(<<Bol,
          Grp(1, Alt([i \in 1..Len(ConventionalTypes) |-> Lit(ConventionalTypes[i])])),
          Opt(ParenScope), Opt(Grp(2, Lit(<<"!">>))), Lit(<<":">>)>>)

\* ^(\w+)(?:\(.*?\))?!:(?:\s|$)
BreakingPattern ==
    Cat(<<Bol, Grp(1, Plus(W)), Opt(ParenScope), Lit(<<"!">>), Lit(<<":">>), Alt(<<S, Eol>>)>>)

\* \b([A-Z]{2,}-\d+)\b
TicketPattern ==
    Cat(<<Wb,
          Grp(1, Cat(<<Chr(Range(UpperLetters)), Chr(Range(UpperLetters)),
                       Star(Chr(Range(UpperLetters))), Lit(<<"-">>), Plus(Chr(Digits))>>)),
          Wb>>)

BreakingChangeMarker == <<"B", "R", "E", "A", "K", "I", "N", "G", " ", "C", "H", "A", "N", "G", "E", ":">>

SmartCommitText == <<" ", "#", "c", "o", "m", "m", "e", "n", "t", " ", "B", "r", "e", "a", "k", "i", "n", "g", " ", "c", "h", "a", "n", "g", "e", ";", " ", "r", "e", "v", "i", "e", "w", " ", "i", "m", "p", "a", "c", "t", "s", " ", "#", "r", "e", "s", "o", "l", "v", "e">>

(***************************************************************************)
(* The correction stages.                                                  *)
(***************************************************************************)
\* fix_duplicate_scope rebuilding the header without the space after the colon
fix_duplicate_scope_no_space(msg) ==
    LET m == re_match(ScopeHeaderPattern, msg)
        type == group(msg, m, 1)
        scope == group(msg, m, 2)
        body == group(msg, m, 3)
        prefix == scope \o <<":", " ">>
        rest == IF startswith(body, prefix) THEN DropTo(body, Len(prefix) + 1) ELSE body
    IN IF m.ok
       THEN type \o <<"(">> \o scope \o <<")", ":">> \o rest
       ELSE re_sub_group1(DuplicateHeaderPattern, msg)

fix_duplicate_scope(msg) ==
    LET m == re_match(ScopeHeaderPattern, msg)
        type == group(msg, m, 1)
        scope == group(msg, m, 2)
        body == group(msg, m, 3)
        prefix == scope \o <<":", " ">>
        rest == IF startswith(body, prefix) THEN DropTo(body, Len(prefix) + 1) ELSE body
    IN IF m.ok
       THEN type \o <<"(">> \o scope \o <<")", ":", " ">> \o rest
       ELSE re_sub_group1(DuplicateHeaderPattern, msg)

\* ensure_ticket_in_header without the `ticket in rest` test
ensure_ticket_always_inserted(msg, jira_ticket) ==
    LET ticket == upper(jira_ticket)
        header_match == re_match(TicketHeaderPattern, msg)
        prefix == group(msg, header_match, 1)
        rest == group(msg, header_match, 3)
    IN IF header_match.ok
       THEN prefix \o ticket \o <<" ">> \o rest
       ELSE IF contains(msg, ticket) THEN msg
            ELSE ticket \o <<" ">> \o msg

\* ensure_ticket_in_header without the `ticket in msg` test
ensure_ticket_always_prepended(msg, jira_ticket) ==
    LET ticket == upper(jira_ticket)
        header_match == re_match(TicketHeaderPattern, msg)
        prefix == group(msg, header_match, 1)
        rest == group(msg, header_match, 3)
    IN IF header_match.ok
       THEN IF contains(rest, ticket) THEN msg
            ELSE prefix \o ticket \o <<" ">> \o rest
       ELSE ticket \o <<" ">> \o msg

\* ensure_ticket_in_header without jira_ticket.upper()
ensure_ticket_not_uppercased(msg, jira_ticket) ==
    LET ticket == jira_ticket
        header_match == re_match(TicketHeaderPattern, msg)
        prefix == group(msg, header_match, 1)
        rest == group(msg, header_match, 3)
    IN IF header_match.ok
       THEN IF contains(rest, ticket) THEN msg
            ELSE prefix \o ticket \o <<" ">> \o rest
       ELSE IF contains(msg, ticket) THEN msg
            ELSE ticket \o <<" ">> \o msg

ensure_ticket_in_header(msg, jira_ticket) ==
    LET ticket == upper(jira_ticket)
        header_match == re_match(TicketHeaderPattern, msg)
        prefix == group(msg, header_match, 1)
        rest == group(msg, header_match, 3)
    IN IF header_match.ok
       THEN IF contains(rest, ticket) THEN msg
            ELSE prefix \o ticket \o <<" ">> \o rest
       ELSE IF contains(msg, ticket) THEN msg
            ELSE ticket \o <<" ">> \o msg

has_conventional_type(msg) == re_match(ConventionalTypePattern, msg).ok

\* suggest_type_header without msg.lower()
suggest_type_case_sensitive(msg) ==
    LET lowered == msg
        suggested_type ==
            IF contains(lowered, <<"d", "o", "c">>) \/ contains(lowered, <<"r", "e", "a", "d", "m", "e">>)
            THEN <<"d", "o", "c", "s">>
            ELSE <<"f", "e", "a", "t">>
    IN IF has_conventional_type(msg) THEN msg
       ELSE suggested_type \o <<":", " ">> \o msg

suggest_type_header(msg) ==
    LET lowered == lower(msg)
        suggested_type ==
            IF contains(lowered, <<"d", "o", "c">>) \/ contains(lowered, <<"r", "e", "a", "d", "m", "e">>)
            THEN <<"d", "o", "c", "s">>
            ELSE <<"f", "e", "a", "t">>
    IN IF has_conventional_type(msg) THEN msg
       ELSE suggested_type \o <<":", " ">> \o msg

\* add_footer_if_breaking_change without the `footer.strip() in msg` test
add_footer_unconditionally(msg, jira_ticket) ==
    LET footer == <<"\n", "\n">> \o upper(jira_ticket) \o SmartCommitText
    IN IF re_match(BreakingPattern, msg).ok \/ contains(msg, BreakingChangeMarker)
       THEN msg \o footer
       ELSE msg

\* add_footer_if_breaking_change with one newline before the footer
add_footer_after_one_newline(msg, jira_ticket) ==
    LET footer == <<"\n">> \o upper(jira_ticket) \o SmartCommitText
    IN IF re_match(BreakingPattern, msg).ok \/ contains(msg, BreakingChangeMarker)
       THEN IF contains(msg, strip(footer)) THEN msg ELSE msg \o footer
       ELSE msg

add_footer_if_breaking_change(msg, jira_ticket) ==
    LET footer == <<"\n", "\n">> \o upper(jira_ticket) \o SmartCommitText
    IN IF re_match(BreakingPattern, msg).ok \/ contains(msg, BreakingChangeMarker)
       THEN IF contains(msg, strip(footer)) THEN msg ELSE msg \o footer
       ELSE msg

\* extract_ticket_from_header_or_body: the ticket found, NoTicket for None
NoTicket == <<>>

extract_ticket_from_header_or_body(msg) ==
    LET m == re_search(TicketPattern, msg)
    IN IF m.ok THEN group(msg, m, 1) ELSE NoTicket

MissingType == "Missing conventional type (feat, fix, docs, style, refactor, test, chore, ci)"

MissingTicket == "Missing Jira ticket in header/body"

ExecutionError == "Commitlint execution error"

\* validate_from_lookup that applies the Python-side rules after the linter
\* too
validate_from_lookup_rules_always(msg, commitlint_cli, raises) ==
    LET errors ==
            (IF commitlint_cli /\ raises THEN <<ExecutionError>> ELSE <<>>)
            \o (IF ~has_conventional_type(msg) THEN <<MissingType>> ELSE <<>>)
            \o (IF extract_ticket_from_header_or_body(msg) = NoTicket
                THEN <<MissingTicket>> ELSE <<>>)
    IN <<Len(errors) = 0, errors>>

\* validate_commit_message from the lookup of commitlint at line 208 on:
\* commitlint_cli tells whether shutil.which("commitlint") finds the linter,
\* raises whether writing the message file or running the linter raises
\* OSError or SubprocessError
validate_from_lookup(msg, commitlint_cli, raises) ==
    IF commitlint_cli /\ ~raises THEN <<TRUE, <<>>>>
    ELSE LET errors ==
                 (IF commitlint_cli THEN <<ExecutionError>> ELSE <<>>)
                 \o (IF ~has_conventional_type(msg) THEN <<MissingType>> ELSE <<>>)
                 \o (IF extract_ticket_from_header_or_body(msg) = NoTicket
                     THEN <<MissingTicket>> ELSE <<>>)
         IN <<Len(errors) = 0, errors>>

(***************************************************************************)
(* The explored inputs: a header built from a type, a scope, a breaking    *)
(* mark and a separator, up to MaxWords words, and a tail of body lines.   *)
(***************************************************************************)
Tickets == { <<"A", "B", "-", "1">>, <<"a", "b", "-", "1">> }

TypeParts == { <<"f", "e", "a", "t">>, <<"z", "z">> }

ScopeParts == { <<>>, <<"(", "u", "i", ")">>, <<"(", "A", "B", "-", "1", ")">> }

BangParts == { <<>>, <<"!">> }

SepParts == { <<>>, <<":">>, <<":", " ">> }

WordParts == { <<"u", "i", ":", " ">>, <<"A", "B", "-", "1", " ">>, <<"D", "o", "c">> }

TailParts ==
    { <<>>,
      <<"\n">>,
      <<"\n", "B", "R", "E", "A", "K", "I", "N", "G", " ", "C", "H", "A", "N", "G", "E", ":", " ", "y">>,
      <<"\n", "\n", "A", "B", "-", "1">> \o SmartCommitText }

RECURSIVE Flatten(_)
Flatten(ss) == IF ss = <<>> THEN <<>> ELSE Head(ss) \o Flatten(Tail(ss))

WordRuns == UNION { [1..n -> WordParts] : n \in 0..MaxWords }

Messages ==
    { ty \o sc \o bg \o sp \o Flatten(ws) \o tl :
        ty \in TypeParts, sc \in ScopeParts, bg \in BangParts,
        sp \in SepParts, ws \in WordRuns, tl \in TailParts }

(***************************************************************************)
(* State: the commit message being corrected and the ticket of the run.    *)
(*   pc     "start": msg is the message as given;                          *)
(*          "typed", "scoped", "ticketed", "final": msg has passed that    *)
(*          stage of the pipeline;                                         *)
(*          "suggest", "fix", "ensure", "footer": msg is the result of     *)
(*          calling that one stage function calls times in a row           *)
(*   prev   the argument of the last call                                  *)
(*   pass   1 on the original message, 2 on the output of the first pass   *)
(*   first  the final message of the first pass                            *)
(***************************************************************************)
VARIABLES orig, ticket, pc, msg, prev, calls, pass, first

mintVars == <<orig, ticket, pc, msg, prev, calls, pass, first>>

(***************************************************************************)
(* State of validate_commit_message: the two module-level flags, and of    *)
(* the calls made so far in the process                                    *)
(*   validations  their number                                             *)
(*   installs     the number of calls of ensure_commitlint_installed       *)
(*   vmsg         the message of the last call                             *)
(*   venv         what the last call found: node, npm, commitlint (at the  *)
(*                lookup of line 208), COMMITMINT_SKIP_INSTALL set, the    *)
(*                linter run raising, the return code of the linter        *)
(*   vresult      the pair (ok, errors) the last call returned             *)
(***************************************************************************)
VARIABLES NODE_CHECKED, COMMITLINT_CHECKED, validations, installs, vmsg, venv, vresult

valVars == <<NODE_CHECKED, COMMITLINT_CHECKED, validations, installs, vmsg, venv, vresult>>

(***************************************************************************)
(* State of a run of the command main on a repository                      *)
(*   head       the message of the last commit                             *)
(*   head0      the message of the last commit when the command started    *)
(*   on_branch  whether get_current_branch found a branch                  *)
(*   steps      the steps of main run so far, in order                     *)
(*   answers    the answer given at each prompt: "yes", "no", or "unasked" *)
(*   handed     the message handed to validate_commit_message              *)
(*   amended    the message given to `git commit --amend`                  *)
(*   failure    the git command that failed, or "none"                     *)
(*   exited     whether the process has ended, and status its exit status  *)
(* main keeps the ticket in ticket, current_msg as read from the log in    *)
(* orig, and current_msg and final_msg in msg.                             *)
(***************************************************************************)
VARIABLES head, head0, on_branch, steps, answers, handed, amended, failure, exited, status

cliVars == <<head, head0, on_branch, steps, answers, handed, amended, failure, exited, status>>

(***************************************************************************)
(* State of a run of a dispatcher on a hook directory                      *)
(*   program      which dispatcher runs: "generated", the script written   *)
(*                by install.py, or "script", pre-commit/dispatcher.py     *)
(*   entries      the directory: for each name what is there               *)
(*   hook_files   the sorted names the loop has still to go through        *)
(*   executed     the names of the hooks run so far, in order              *)
(*   replayed     the names of the hooks whose captured output has been    *)
(*                written to the dispatcher's stdout and stderr            *)
(*   dpc          "start", "loop", or "exited", and exit_status the exit   *)
(*                status of the dispatcher once it has exited              *)
(***************************************************************************)
VARIABLES program, entries, hook_files, executed, replayed, dpc, exit_status

dispVars == <<program, entries, hook_files, executed, replayed, dpc, exit_status>>

(***************************************************************************)
(* State of the installer, GitHooksInstaller, and of the file system it    *)
(* works on                                                                *)
(*   global_install  whether the hooks are installed globally              *)
(*   force           the installer's force flag                            *)
(*   source_dirs     the hook types that have a directory of hook scripts  *)
(*   fs              the file system: git is what is at repo_path/.git     *)
(*                   ("absent", "dir", or "file" as in a linked work       *)
(*                   tree), hooks whether the target hooks directory is    *)
(*                   there, files what each hook file of it holds          *)
(*                   ("absent", "generated" for the dispatcher the         *)
(*                   installer writes, "modified" for any other content)   *)
(*   fs0             the file system when the current run started          *)
(*   pending         the hook types the loop has still to go through       *)
(*   installed_count the count the run reports                             *)
(*   ipc             "start", "loop" or "done", and iresult what the run   *)
(*                   returned: "True", "False", or "raised"                *)
(*   runs            the number of runs started                            *)
(***************************************************************************)
VARIABLES global_install, force, source_dirs, fs, fs0, pending,
          installed_count, ipc, iresult, runs

instVars == <<global_install, force, source_dirs, fs, fs0, pending,
              installed_count, ipc, iresult, runs>>

(***************************************************************************)
(* State of a RuntimeCache and of what it reads                            *)
(*   cache_ttl    the time to live the cache was made with                 *)
(*   now          the clock                                                *)
(*   config       the keys hooks.runtime.bash, .python, .node (a path, or  *)
(*                NoPath when unset) and .detectedAt (<<t>>, or <<>> when  *)
(*                unset) of the git configuration                          *)
(*   disk         the paths that exist                                     *)
(*   written_at   for each runtime, <<t>> with t the time its path was     *)
(*                last detected and written, or <<>>                       *)
(*   ret          the last call of get_bash_path, get_python_path or       *)
(*                get_node_path: its runtime, force_detect, the time of    *)
(*                the call, the path the cache held, whether that path     *)
(*                existed and the cache was valid, whether the call        *)
(*                answered from the cache, the path returned (NoPath for   *)
(*                None, with raised set when it raised) and whether that   *)
(*                path existed                                             *)
(***************************************************************************)
VARIABLES cache_ttl, now, config, disk, written_at, ret

cacheVars == <<cache_ttl, now, config, disk, written_at, ret>>

(***************************************************************************)
(* State of a call of create_and_push_branch                               *)
(*   max_retries  its argument                                             *)
(*   push_attempt the loop variable attempt: the number of the last push   *)
(*   events       what the call has run so far, in order: the branch       *)
(*                creation, each git push with its outcome, each sleep     *)
(*                with its seconds, the git ls-remote with its answer      *)
(*   ppc          "create", "push", or "returned", and presult what the    *)
(*                call returned                                            *)
(***************************************************************************)
VARIABLES max_retries, push_attempt, events, ppc, presult

pushVars == <<max_retries, push_attempt, events, ppc, presult>>

toolVars == <<instVars, cacheVars, pushVars>>

vars == <<mintVars, valVars, cliVars, dispVars, toolVars>>

NoPath == ""

\* no installer started
InstallerIdle ==
    /\ global_install = FALSE
    /\ force = FALSE
    /\ source_dirs = {}
    /\ fs = <<>>
    /\ fs0 = <<>>
    /\ pending = <<>>
    /\ installed_count = 0
    /\ ipc = "idle"
    /\ iresult = "none"
    /\ runs = 0

\* no runtime cache made
CacheIdle ==
    /\ cache_ttl = 0
    /\ now = 0
    /\ config = <<>>
    /\ disk = {}
    /\ written_at = <<>>
    /\ ret = <<>>

\* create_and_push_branch not called
PushIdle ==
    /\ max_retries = 0
    /\ push_attempt = 0
    /\ events = <<>>
    /\ ppc = "idle"
    /\ presult = "none"

ToolsIdle == InstallerIdle /\ CacheIdle /\ PushIdle

\* no dispatcher started
DispatcherIdle ==
    /\ program = "none"
    /\ entries = <<>>
    /\ hook_files = <<>>
    /\ executed = <<>>
    /\ replayed = <<>>
    /\ dpc = "idle"
    /\ exit_status = 0

Unasked == [type |-> "unasked", scope |-> "unasked", ticket |-> "unasked", final |-> "unasked"]

\* main not called
CliIdle ==
    /\ head = <<>>
    /\ head0 = <<>>
    /\ on_branch = FALSE
    /\ steps = <<>>
    /\ answers = Unasked
    /\ handed = <<>>
    /\ amended = <<>>
    /\ failure = "none"
    /\ exited = FALSE
    /\ status = 0

NoEnv == [node |-> FALSE, npm |-> FALSE, commitlint |-> FALSE, skip |-> FALSE, raises |-> FALSE,
          returncode |-> 0]

\* the module as imported: no call of validate_commit_message yet
ValidatorLoaded ==
    /\ NODE_CHECKED = FALSE
    /\ COMMITLINT_CHECKED = FALSE
    /\ validations = 0
    /\ installs = 0
    /\ vmsg = <<>>
    /\ venv = NoEnv
    /\ vresult = <<TRUE, <<>>>>

\* the commit message pipeline not started
MintIdle ==
    /\ orig = <<>>
    /\ ticket = <<>>
    /\ pc = "idle"
    /\ msg = <<>>
    /\ prev = <<>>
    /\ calls = 0
    /\ pass = 1
    /\ first = <<>>

Init ==
    /\ orig \in Messages
    /\ ticket \in Tickets
    /\ pc = "start"
    /\ msg = orig
    /\ prev = <<>>
    /\ calls = 0
    /\ pass = 1
    /\ first = <<>>
    /\ ValidatorLoaded
    /\ CliIdle
    /\ DispatcherIdle
    /\ ToolsIdle

\* main, Stage 0, the proposal accepted
Stage0 ==
    /\ pc = "start"
    /\ msg' = IF ~has_conventional_type(msg) THEN suggest_type_header(msg) ELSE msg
    /\ pc' = "typed"
    /\ prev' = msg
    /\ UNCHANGED <<orig, ticket, calls, pass, first>>
    /\ UNCHANGED <<valVars, cliVars, dispVars, toolVars>>

\* main, Stage 1, the proposal accepted
Stage1 ==
    /\ pc = "typed"
    /\ msg' = fix_duplicate_scope(msg)
    /\ pc' = "scoped"
    /\ prev' = msg
    /\ UNCHANGED <<orig, ticket, calls, pass, first>>
    /\ UNCHANGED <<valVars, cliVars, dispVars, toolVars>>

\* main, Stage 2, the proposal accepted
Stage2 ==
    /\ pc = "scoped"
    /\ msg' = ensure_ticket_in_header(msg, ticket)
    /\ pc' = "ticketed"
    /\ prev' = msg
    /\ UNCHANGED <<orig, ticket, calls, pass, first>>
    /\ UNCHANGED <<valVars, cliVars, dispVars, toolVars>>

\* main, breaking change handling
BreakingFooter ==
    /\ pc = "ticketed"
    /\ msg' = add_footer_if_breaking_change(msg, ticket)
    /\ pc' = "final"
    /\ prev' = msg
    /\ UNCHANGED <<orig, ticket, calls, pass, first>>
    /\ UNCHANGED <<valVars, cliVars, dispVars, toolVars>>

\* the pipeline is run again on its own output, with the same ticket
RunAgain ==
    /\ pc = "final"
    /\ pass = 1
    /\ pass' = 2
    /\ first' = msg
    /\ pc' = "start"
    /\ prev' = <<>>
    /\ UNCHANGED <<orig, ticket, msg, calls>>
    /\ UNCHANGED <<valVars, cliVars, dispVars, toolVars>>

\* one stage function called on its own, at most twice in a row
Call(name, result) ==
    /\ pass = 1
    /\ \/ pc = "start" /\ calls = 0
       \/ pc = name /\ calls = 1
    /\ pc' = name
    /\ calls' = calls + 1
    /\ prev' = msg
    /\ msg' = result
    /\ UNCHANGED <<orig, ticket, pass, first>>
    /\ UNCHANGED <<valVars, cliVars, dispVars, toolVars>>

CallSuggest == Call("suggest", suggest_type_header(msg))

CallFix == Call("fix", fix_duplicate_scope(msg))

CallEnsure == Call("ensure", ensure_ticket_in_header(msg, ticket))

CallFooter == Call("footer", add_footer_if_breaking_change(msg, ticket))

Next ==
    \/ Stage0
    \/ Stage1
    \/ Stage2
    \/ BreakingFooter
    \/ RunAgain
    \/ CallSuggest
    \/ CallFix
    \/ CallEnsure
    \/ CallFooter

Spec == Init /\ [][Next]_vars

TypeOK ==
    /\ pc \in {"idle", "start", "typed", "scoped", "ticketed", "final", "suggest", "fix", "ensure", "footer"}
    /\ calls \in 0..2
    /\ pass \in 1..2

(***************************************************************************)
(* Properties of the correction pipeline.                                  *)
(***************************************************************************)

\* C1: running the pipeline on its own output with the same ticket returns
\* that output unchanged: P(P(m, t), t) = P(m, t).
C1_PipelineIdempotent ==
    (pc = "final" /\ pass = 2) => msg = first

\* C2: the final message of the pipeline has a conventional type and
\* contains the upper-cased ticket, for header-only messages and for
\* messages with body lines alike.
C2_PipelinePostcondition ==
    (pc = "final" /\ pass = 1) =>
        /\ has_conventional_type(msg)
        /\ contains(msg, upper(ticket))

(***************************************************************************)
(* Properties of ensure_ticket_in_header.                                  *)
(***************************************************************************)

\* the number of places where sub occurs in s
Occurrences(s, sub) == Cardinality({at \in 1..Len(s) : MatchesAt(s, sub, at)})

\* the header prefix of m (type, scope, breaking mark, colon and the
\* whitespace after it) when m is a single header line, empty otherwise
HeaderPrefix(m) ==
    LET h == re_match(TicketHeaderPattern, m)
    IN IF h.ok THEN group(m, h, 1) ELSE <<>>

\* the text of m after its header prefix
TextAfterPrefix(m) == DropTo(m, Len(HeaderPrefix(m)) + 1)

C5_TicketPresent ==
    (pc = "ensure" /\ calls >= 1) => contains(msg, upper(ticket))

C5_Witness ==
    /\ pc = "ensure" /\ calls = 1
    /\ ~contains(prev, upper(ticket))
    /\ contains(msg, upper(ticket))

(***************************************************************************)
(* Properties of suggest_type_header.                                      *)
(***************************************************************************)

\* sub occurs in s when the case of the letters of s is ignored
MentionsIgnoringCase(s, sub) ==
    \E at \in 1..(Len(s) - Len(sub) + 1) :
        \A j \in 1..Len(sub) : lower_char(s[at + j - 1]) = sub[j]

MentionsDocs(s) ==
    \/ MentionsIgnoringCase(s, <<"d", "o", "c">>)
    \/ MentionsIgnoringCase(s, <<"r", "e", "a", "d", "m", "e">>)

\* C6: has_conventional_type(suggest_type_header(m)) is true; a message that
\* has a conventional type is returned unchanged, otherwise `docs: ` is
\* prepended when the message mentions doc/readme (case-insensitive) and
\* `feat: ` otherwise.
C6_TypePresent ==
    (pc = "suggest" /\ calls = 1) =>
        /\ has_conventional_type(msg)
        /\ has_conventional_type(prev) => msg = prev
        /\ ~has_conventional_type(prev) =>
             msg = (IF MentionsDocs(prev) THEN <<"d", "o", "c", "s", ":", " ">>
                    ELSE <<"f", "e", "a", "t", ":", " ">>) \o prev

C6_Witness ==
    /\ pc = "suggest" /\ calls = 1
    /\ ~has_conventional_type(prev)
    /\ MentionsDocs(prev)
    /\ startswith(msg, <<"d", "o", "c", "s", ":", " ">>)
    /\ has_conventional_type(msg)

(***************************************************************************)
(* Properties of add_footer_if_breaking_change.                            *)
(***************************************************************************)

\* the Smart Commit footer line of ticket t
FooterLine(t) == upper(t) \o SmartCommitText

\* C7: add_footer_if_breaking_change applied twice with the same ticket
\* gives the same string as applied once, and a message that already
\* carries the footer is returned unchanged.
C7_BreakingFooterOnce ==
    /\ (pc = "footer" /\ calls = 2) => msg = prev
    /\ (pc = "footer" /\ calls = 1 /\ contains(prev, FooterLine(ticket))) => msg = prev

C7_Witness ==
    /\ pc = "footer" /\ calls = 2
    /\ ~contains(orig, FooterLine(ticket))
    /\ contains(prev, FooterLine(ticket))
    /\ msg = prev

\* ^\w+(\(.*?\))?!: , the breaking header as C8 states it
BreakingHeaderAsStated ==
    Cat(<<Bol, Plus(W), Opt(ParenScope), Lit(<<"!">>), Lit(<<":">>)>>)

\* the same, followed by whitespace or the end of the message
BreakingHeaderThenSpaceOrEnd ==
    Cat(<<Bol, Plus(W), Opt(ParenScope), Lit(<<"!">>), Lit(<<":">>), Alt(<<S, Eol>>)>>)

Least(ns) == CHOOSE x \in ns : \A y \in ns : x <= y

\* the index of the first character of m that is no word character
\* (0 if there is none)
TypeEnd(m) ==
    LET stop == {x \in 1..Len(m) : m[x] \notin WordChars}
    IN IF stop = {} THEN 0 ELSE Least(stop)

\* the index of the first ")" of m (0 if there is none)
ScopeEnd(m) ==
    LET close == {x \in 1..Len(m) : m[x] = ")"}
    IN IF close = {} THEN 0 ELSE Least(close)

\* m starts with `type(scope):`, a word, a non-empty scope in parentheses
\* and a colon
StartsWithScopedType(m) ==
    /\ TypeEnd(m) >= 2
    /\ m[TypeEnd(m)] = "("
    /\ ScopeEnd(m) > TypeEnd(m) + 1
    /\ ScopeEnd(m) < Len(m)
    /\ m[ScopeEnd(m) + 1] = ":"

ScopeOf(m) == SubSeq(m, TypeEnd(m) + 1, ScopeEnd(m) - 1)

\* the text of m after `type(scope):`
AfterScopedType(m) == DropTo(m, ScopeEnd(m) + 2)

\* the first line of m has the form `type(scope): scope: rest`
HasDuplicateScope(m) ==
    /\ StartsWithScopedType(m)
    /\ "\n" \notin Range(ScopeOf(m))
    /\ startswith(AfterScopedType(m), <<" ">> \o ScopeOf(m) \o <<":", " ">>)

\* m without the redundant `scope: ` of its header
WithoutDuplicateScope(m) ==
    SubSeq(m, 1, ScopeEnd(m) + 2) \o DropTo(AfterScopedType(m), Len(ScopeOf(m)) + 4)

\* m starts with a type prefix, `type:` or `type(...):`, that is repeated
\* after optional whitespace
HasRepeatedTypePrefix(m) ==
    \E k \in 2..Len(m) : \E q \in (k + 1)..Len(m) :
        /\ m[k] = ":"
        /\ TypeEnd(m) >= 2
        /\ \/ TypeEnd(m) = k
           \/ m[TypeEnd(m)] = "(" /\ m[k - 1] = ")"
        /\ \A x \in (k + 1)..(q - 1) : m[x] \in SpaceChars
        /\ MatchesAt(m, SubSeq(m, 1, k), q)

\* C9: for every message whose first line has the form
\* `type(scope): scope: rest`, fix_duplicate_scope returns the message with
\* the redundant `scope: ` removed, whether or not body lines follow.
C9_DuplicateScopeRemoved ==
    (pc = "fix" /\ calls = 1 /\ HasDuplicateScope(prev)) =>
        msg = WithoutDuplicateScope(prev)

OneSpaceAfterScopedType(m) ==
    LET after == AfterScopedType(m)
    IN /\ Len(after) >= 1
       /\ after[1] = " "
       /\ Len(after) >= 2 => after[2] \notin SpaceChars
       /\ m[Len(m)] # "\n"

PrefixParts ==
    { <<"f", "e", "a", "t", ":">>,
      <<"z", "z", "(", ")", ":">>,
      <<"f", "e", "a", "t", "(", "u", "i", ")", ":">> }

GapParts == { <<>>, <<" ">>, <<"\n">> }

RestParts == { <<" ", "x">>, <<"u", "i", ":", " ">> }

RestRuns == UNION { [1..n -> RestParts] : n \in 0..MaxWords }

BodyParts == { <<>>, <<"\n", "b">> }

PrefixedMessages ==
    { p1 \o gp \o p2 \o Flatten(ws) \o bd :
        p1 \in PrefixParts, gp \in GapParts, p2 \in PrefixParts \cup {<<>>},
        ws \in RestRuns, bd \in BodyParts }

\* fix_duplicate_scope is called on a message with a type prefix
InitPrefixed ==
    /\ orig \in PrefixedMessages
    /\ ticket = <<"A", "B", "-", "1">>
    /\ pc = "start"
    /\ msg = orig
    /\ prev = <<>>
    /\ calls = 0
    /\ pass = 1
    /\ first = <<>>
    /\ ValidatorLoaded
    /\ CliIdle
    /\ DispatcherIdle
    /\ ToolsIdle

NextPrefixed == CallFix

SpecPrefixed == InitPrefixed /\ [][NextPrefixed]_vars

\* the ends k of the prefixes `type:` and `type(...):` m starts with
TypePrefixEnds(m) ==
    { k \in 2..Len(m) :
        /\ m[k] = ":"
        /\ TypeEnd(m) >= 2
        /\ \/ TypeEnd(m) = k
           \/ m[TypeEnd(m)] = "(" /\ m[k - 1] = ")" }

\* the index of the first character of m from index from on that is no
\* whitespace (Len(m) + 1 if there is none)
SkipSpaces(m, from) ==
    Least({x \in from..(Len(m) + 1) : x = Len(m) + 1 \/ m[x] \notin SpaceChars})

\* the prefix of m that ends at k is repeated right after it, whitespace apart
RepeatsAt(m, k) == MatchesAt(m, SubSeq(m, 1, k), SkipSpaces(m, k + 1))

\* m with the repetition of its type prefix, and the whitespace before the
\* repetition, taken out
CollapsedPrefix(m) ==
    LET k == Least({x \in TypePrefixEnds(m) : RepeatsAt(m, x)})
    IN SubSeq(m, 1, k) \o DropTo(m, SkipSpaces(m, k + 1) + k)

\* C11: a message whose header does not parse as `type(scope):` and that
\* repeats its type prefix (`feat: feat: x`) leaves fix_duplicate_scope with
\* the repetition collapsed to one prefix.
C11_RepeatedPrefixCollapsed ==
    ( /\ pc = "fix" /\ calls = 1
      /\ ~StartsWithScopedType(prev)
      /\ HasRepeatedTypePrefix(prev) )
    => msg = CollapsedPrefix(prev)

\* C12: fix_duplicate_scope applied to its own output changes nothing, a
\* scope repeated twice after the colon (`feat(ui): ui: ui: x`) included.
C12_FixDuplicateScopeIdempotent ==
    (pc = "fix" /\ calls = 2) => msg = prev

(***************************************************************************)
(* validate_commit_message called up to MaxValidations times in a process, *)
(* on messages with something ticket-like in them.                         *)
(***************************************************************************)
MaxValidations == 2

HeaderParts == { <<>>, <<"f", "e", "a", "t", ":", " ">> }

BeforeParts == { <<>>, <<"J", "T", "_">> }

TicketLikeParts == { <<"A", "B", "-", "1">>, <<"A", "-", "1">> }

ValidatedMessages ==
    { hd \o bf \o tk :
        hd \in HeaderParts, bf \in BeforeParts, tk \in TicketLikeParts }

InitValidator ==
    /\ MintIdle
    /\ ValidatorLoaded
    /\ CliIdle
    /\ DispatcherIdle
    /\ ToolsIdle

\* ValidateCall that leaves _COMMITLINT_CHECKED as it finds it
ValidateCallUnmarked(m) ==
    /\ validations < MaxValidations
    /\ \E node \in BOOLEAN, npm \in BOOLEAN, commitlint \in BOOLEAN, skip \in BOOLEAN :
         LET check == node /\ npm /\ ~COMMITLINT_CHECKED
             attempt == check /\ ~commitlint /\ ~skip
         IN \E installed \in (IF attempt THEN BOOLEAN ELSE {FALSE}) :
              LET commitlint_cli == commitlint \/ installed
              IN \E raises \in (IF commitlint_cli THEN BOOLEAN ELSE {FALSE}) :
                 \E returncode \in (IF commitlint_cli /\ ~raises THEN {0, 1} ELSE {0}) :
                   /\ NODE_CHECKED' = TRUE
                   /\ COMMITLINT_CHECKED' = COMMITLINT_CHECKED
                   /\ installs' = installs + (IF attempt THEN 1 ELSE 0)
                   /\ validations' = validations + 1
                   /\ vmsg' = m
                   /\ venv' = [node |-> node, npm |-> npm, commitlint |-> commitlint_cli,
                               skip |-> skip, raises |-> raises,
                               returncode |-> returncode]
                   /\ vresult' = validate_from_lookup(m, commitlint_cli, raises)

\* one call of validate_commit_message(m).  node, npm and commitlint tell what
\* shutil.which finds when the call starts, skip whether
\* COMMITMINT_SKIP_INSTALL is set, installed whether the linter is there
\* after ensure_commitlint_installed, raises whether running it raises.
ValidateCall(m) ==
    /\ validations < MaxValidations
    /\ \E node \in BOOLEAN, npm \in BOOLEAN, commitlint \in BOOLEAN, skip \in BOOLEAN :
         LET check == node /\ npm /\ ~COMMITLINT_CHECKED
             attempt == check /\ ~commitlint /\ ~skip
         IN \E installed \in (IF attempt THEN BOOLEAN ELSE {FALSE}) :
              LET commitlint_cli == commitlint \/ installed
              IN \E raises \in (IF commitlint_cli THEN BOOLEAN ELSE {FALSE}) :
                 \E returncode \in (IF commitlint_cli /\ ~raises THEN {0, 1} ELSE {0}) :
                   /\ NODE_CHECKED' = TRUE
                   /\ COMMITLINT_CHECKED' = (COMMITLINT_CHECKED \/ check)
                   /\ installs' = installs + (IF attempt THEN 1 ELSE 0)
                   /\ validations' = validations + 1
                   /\ vmsg' = m
                   /\ venv' = [node |-> node, npm |-> npm, commitlint |-> commitlint_cli,
                               skip |-> skip, raises |-> raises,
                               returncode |-> returncode]
                   /\ vresult' = validate_from_lookup(m, commitlint_cli, raises)

\* validate_commit_message called on its own
Validate ==
    /\ \E m \in ValidatedMessages : ValidateCall(m)
    /\ UNCHANGED <<mintVars, cliVars, dispVars, toolVars>>

NextValidator == Validate

SpecValidator == InitValidator /\ [][NextValidator]_vars

\* m has a substring of the shape [A-Z]{2,}-\d+
HasTicketShape(m) ==
    \E i \in 1..Len(m) : \E k \in (i + 2)..Len(m) : \E j \in (k + 1)..Len(m) :
        /\ \A x \in i..(k - 1) : m[x] \in Range(UpperLetters)
        /\ m[k] = "-"
        /\ \A x \in (k + 1)..j : m[x] \in Digits

Reports(error) == \E x \in 1..Len(vresult[2]) : vresult[2][x] = error

\* C13: a call of validate_commit_message that finds no linter reports the
\* missing type exactly when has_conventional_type is false, reports the
\* missing ticket exactly when the message has no substring of the shape
\* [A-Z]{2,}-\d+, and returns ok exactly when it reports no error.
C13_PythonSideValidation ==
    (validations > 0 /\ ~venv.commitlint) =>
        /\ Reports(MissingType) <=> ~has_conventional_type(vmsg)
        /\ Reports(MissingTicket) <=> ~HasTicketShape(vmsg)
        /\ vresult[1] <=> (vresult[2] = <<>>)

(***************************************************************************)
(* The command main run on a repository: the ticket known, the last commit *)
(* one of CliHeads, the answers of the user and the outcomes of the git    *)
(* commands free.  pc names the last step of main that has been run.       *)
(***************************************************************************)
CliHeads ==
    { <<"f", "e", "a", "t", "(", "u", "i", ")", ":", " ", "u", "i", ":", " ", "x">>,
      <<"D", "o", "c", " ", "x">>,
      <<"f", "e", "a", "t", "(", "a", "p", "i", ")", "!", ":", " ", "c", "h", "a", "n", "g", "e">>,
      <<"f", "e", "a", "t", "(", "a", ")", ":", "\n", "b", ")", "!", ":", " ", "x">>,
      <<"f", "e", "a", "t", ":", " ", "A", "B", "-", "1", " ", "x">>,
      <<"z", "z", ":", " ", "x", "\n">>,
      <<"x", "\n", "\n", "B", "R", "E", "A", "K", "I", "N", "G", " ", "C", "H", "A", "N", "G", "E", ":", " ", "y">> }

\* what the user may type at the prompt `Edit the message to fix issues`
Replacement == <<"f", "i", "x", ":", " ", "A", "B", "-", "1", " ", "e">>

Answer(accept) == IF accept THEN "yes" ELSE "no"

InitCli ==
    /\ orig = <<>>
    /\ ticket \in Tickets
    /\ pc = "begin"
    /\ msg = <<>>
    /\ prev = <<>>
    /\ calls = 0
    /\ pass = 1
    /\ first = <<>>
    /\ ValidatorLoaded
    /\ head \in CliHeads
    /\ head0 = head
    /\ on_branch \in BOOLEAN
    /\ steps = <<>>
    /\ answers = Unasked
    /\ handed = <<>>
    /\ amended = <<>>
    /\ failure = "none"
    /\ exited = FALSE
    /\ status = 0
    /\ DispatcherIdle
    /\ ToolsIdle

\* Checkout that goes on to the log when the checkout fails
CheckoutFailureIgnored ==
    /\ pc = "begin"
    /\ IF ~on_branch
       THEN \E git_ok \in BOOLEAN :
              /\ steps' = Append(steps, "checkout")
              /\ failure' = IF git_ok THEN failure ELSE "checkout"
              /\ pc' = "branch"
              /\ UNCHANGED <<exited, status>>
       ELSE /\ pc' = "branch"
            /\ UNCHANGED <<steps, failure, exited, status>>
    /\ UNCHANGED <<orig, ticket, msg, prev, calls, pass, first>>
    /\ UNCHANGED <<head, head0, on_branch, answers, handed, amended>>
    /\ UNCHANGED <<valVars, dispVars, toolVars>>

\* main, lines 44-51: the branch is checked out unless the repository is on
\* one; a failed checkout is reported and ends the process with status 1
Checkout ==
    /\ pc = "begin"
    /\ IF ~on_branch
       THEN \E git_ok \in BOOLEAN :
              /\ steps' = Append(steps, "checkout")
              /\ IF git_ok
                 THEN /\ pc' = "branch"
                      /\ UNCHANGED <<failure, exited, status>>
                 ELSE /\ pc' = "exited"
                      /\ failure' = "checkout"
                      /\ exited' = TRUE
                      /\ status' = 1
       ELSE /\ pc' = "branch"
            /\ UNCHANGED <<steps, failure, exited, status>>
    /\ UNCHANGED <<orig, ticket, msg, prev, calls, pass, first>>
    /\ UNCHANGED <<head, head0, on_branch, answers, handed, amended>>
    /\ UNCHANGED <<valVars, dispVars, toolVars>>

\* main, lines 53-55: current_msg is the output of `git log -1 --pretty=%B`,
\* stripped; the RuntimeError of a failed git command is not caught
ReadLog ==
    /\ pc = "branch"
    /\ steps' = Append(steps, "log")
    /\ \E git_ok \in BOOLEAN :
         IF git_ok
         THEN /\ msg' = strip(head \o <<"\n">>)
              /\ orig' = msg'
              /\ pc' = "log"
              /\ UNCHANGED <<failure, exited, status>>
         ELSE /\ pc' = "exited"
              /\ failure' = "log"
              /\ exited' = TRUE
              /\ status' = 1
              /\ UNCHANGED <<msg, orig>>
    /\ UNCHANGED <<ticket, prev, calls, pass, first>>
    /\ UNCHANGED <<head, head0, on_branch, answers, handed, amended>>
    /\ UNCHANGED <<valVars, dispVars, toolVars>>

\* main, Stage 0: a type is proposed if there is none, applied if accepted
PromptType ==
    /\ pc = "log"
    /\ steps' = Append(steps, "stage0")
    /\ LET suggested == suggest_type_header(msg)
       IN IF ~has_conventional_type(msg) /\ suggested # <<>> /\ suggested # msg
          THEN \E accept \in BOOLEAN :
                 /\ answers' = [answers EXCEPT !.type = Answer(accept)]
                 /\ msg' = IF accept THEN suggested ELSE msg
          ELSE UNCHANGED <<answers, msg>>
    /\ pc' = "stage0"
    /\ UNCHANGED <<orig, ticket, prev, calls, pass, first>>
    /\ UNCHANGED <<head, head0, on_branch, handed, amended, failure, exited, status>>
    /\ UNCHANGED <<valVars, dispVars, toolVars>>

\* main, Stage 1: the duplicate scope fix is proposed, applied if accepted
PromptScope ==
    /\ pc = "stage0"
    /\ steps' = Append(steps, "stage1")
    /\ LET proposed_msg == fix_duplicate_scope(msg)
       IN IF proposed_msg # msg
          THEN \E accept \in BOOLEAN :
                 /\ answers' = [answers EXCEPT !.scope = Answer(accept)]
                 /\ msg' = IF accept THEN proposed_msg ELSE msg
          ELSE UNCHANGED <<answers, msg>>
    /\ pc' = "stage1"
    /\ UNCHANGED <<orig, ticket, prev, calls, pass, first>>
    /\ UNCHANGED <<head, head0, on_branch, handed, amended, failure, exited, status>>
    /\ UNCHANGED <<valVars, dispVars, toolVars>>

\* main, Stage 2: the ticket placement is proposed, applied if accepted
PromptTicket ==
    /\ pc = "stage1"
    /\ steps' = Append(steps, "stage2")
    /\ LET proposed_msg == ensure_ticket_in_header(msg, ticket)
       IN IF proposed_msg # msg
          THEN \E accept \in BOOLEAN :
                 /\ answers' = [answers EXCEPT !.ticket = Answer(accept)]
                 /\ msg' = IF accept THEN proposed_msg ELSE msg
          ELSE UNCHANGED <<answers, msg>>
    /\ pc' = "stage2"
    /\ UNCHANGED <<orig, ticket, prev, calls, pass, first>>
    /\ UNCHANGED <<head, head0, on_branch, handed, amended, failure, exited, status>>
    /\ UNCHANGED <<valVars, dispVars, toolVars>>

\* main, lines 85-86: final_msg is current_msg with the footer, no prompt
AddFooter ==
    /\ pc = "stage2"
    /\ steps' = Append(steps, "footer")
    /\ msg' = add_footer_if_breaking_change(msg, ticket)
    /\ pc' = "footer"
    /\ UNCHANGED <<orig, ticket, prev, calls, pass, first>>
    /\ UNCHANGED <<head, head0, on_branch, answers, handed, amended, failure, exited, status>>
    /\ UNCHANGED <<valVars, dispVars, toolVars>>

\* main, lines 88-95: final_msg is validated; if it is not valid the user
\* types the message that replaces it, final_msg being the default
ValidateFinal ==
    /\ pc = "footer"
    /\ steps' = Append(steps, "validate")
    /\ handed' = msg
    /\ ValidateCall(msg)
    /\ IF ~vresult'[1]
       THEN \E edited \in {msg, Replacement} : msg' = edited
       ELSE msg' = msg
    /\ pc' = "validated"
    /\ UNCHANGED <<orig, ticket, prev, calls, pass, first>>
    /\ UNCHANGED <<head, head0, on_branch, answers, amended, failure, exited, status>>
    /\ UNCHANGED <<dispVars, toolVars>>

\* ConfirmAmend that amends whatever the answer to the final confirmation
ConfirmAmendUnasked ==
    /\ pc = "validated"
    /\ \E accept \in BOOLEAN : \E git_ok \in BOOLEAN :
         /\ answers' = [answers EXCEPT !.final = Answer(accept)]
         /\ steps' = steps \o <<"confirm", "amend">>
         /\ amended' = msg
         /\ head' = IF git_ok THEN msg ELSE head
         /\ failure' = IF git_ok THEN failure ELSE "amend"
         /\ status' = IF git_ok THEN 0 ELSE 1
    /\ exited' = TRUE
    /\ pc' = "exited"
    /\ UNCHANGED <<orig, ticket, msg, prev, calls, pass, first>>
    /\ UNCHANGED <<head0, on_branch, handed>>
    /\ UNCHANGED <<valVars, dispVars, toolVars>>

\* main, lines 97-103: the last commit is amended with final_msg if the user
\* confirms; the RuntimeError of a failed amend is not caught
ConfirmAmend ==
    /\ pc = "validated"
    /\ \E accept \in BOOLEAN :
         /\ answers' = [answers EXCEPT !.final = Answer(accept)]
         /\ IF accept
            THEN \E git_ok \in BOOLEAN :
                   /\ steps' = steps \o <<"confirm", "amend">>
                   /\ amended' = msg
                   /\ head' = IF git_ok THEN msg ELSE head
                   /\ failure' = IF git_ok THEN failure ELSE "amend"
                   /\ status' = IF git_ok THEN 0 ELSE 1
            ELSE /\ steps' = Append(steps, "confirm")
                 /\ status' = 0
                 /\ UNCHANGED <<amended, head, failure>>
    /\ exited' = TRUE
    /\ pc' = "exited"
    /\ UNCHANGED <<orig, ticket, msg, prev, calls, pass, first>>
    /\ UNCHANGED <<head0, on_branch, handed>>
    /\ UNCHANGED <<valVars, dispVars, toolVars>>

NextCli ==
    \/ Checkout
    \/ ReadLog
    \/ PromptType
    \/ PromptScope
    \/ PromptTicket
    \/ AddFooter
    \/ ValidateFinal
    \/ ConfirmAmend

SpecCli == InitCli /\ [][NextCli]_vars

\* the step of main named step has been run
Ran(step) == \E x \in 1..Len(steps) : steps[x] = step

\* C14: `git commit --amend` is issued only after the user has accepted the
\* final confirmation; if the user declines it, no amend is issued and the
\* message of the last commit is the one it was when the command started.
C14_AmendOnlyOnConfirmation ==
    /\ Ran("amend") => answers.final = "yes"
    /\ answers.final = "no" => (~Ran("amend") /\ head = head0)

\* the user has accepted a stage change and declined the final confirmation
C14_Witness ==
    /\ exited
    /\ answers.final = "no"
    /\ answers.scope = "yes"
    /\ msg # orig
    /\ head = head0

\* the message read from the log with the stage changes the user accepted,
\* in the order of the stages, and no other change
OnlyAccepted ==
    LET typed == IF answers.type = "yes" THEN suggest_type_header(orig) ELSE orig
        scoped == IF answers.scope = "yes" THEN fix_duplicate_scope(typed) ELSE typed
    IN IF answers.ticket = "yes" THEN ensure_ticket_in_header(scoped, ticket) ELSE scoped

\* C15: the change of each of the four correction stages is applied only
\* after the user has accepted it: the message handed to validation is the
\* message read from the log with the accepted stage changes and no other.
C15_StageChangesNeedAcceptance ==
    Ran("validate") => handed = OnlyAccepted

\* the result of the orchestration algorithm: the breaking flag computed on
\* the original message, the footer stage run only if it is set
IsBreaking(m) == re_match(BreakingPattern, m).ok \/ contains(m, BreakingChangeMarker)

Orchestrated(original_msg, jira_ticket) ==
    LET typed == IF ~has_conventional_type(original_msg)
                 THEN suggest_type_header(original_msg) ELSE original_msg
        ticketed == ensure_ticket_in_header(fix_duplicate_scope(typed), jira_ticket)
    IN IF IsBreaking(original_msg)
       THEN add_footer_if_breaking_change(ticketed, jira_ticket)
       ELSE ticketed

EveryPromptAccepted ==
    \A p \in {"type", "scope", "ticket", "final"} : answers[p] # "no"

\* C16: when the user accepts every prompt and validation passes, the
\* message the command amends is the result of the orchestration algorithm
\* for the message read from the log and the ticket.
C16_CliFollowsAlgorithm ==
    (Ran("amend") /\ EveryPromptAccepted /\ vresult[1])
    => amended = Orchestrated(orig, ticket)

\* the last step of main that has been run
LastStep == steps[Len(steps)]

MaxExit == 2

\* str.endswith
endswith(s, sub) == Len(sub) <= Len(s) /\ MatchesAt(s, sub, Len(s) - Len(sub) + 1)

\* the characters of file names in the order of their code points
CodePoints == <<".">> \o UpperLetters \o <<"_">> \o LowerLetters

ord(c) == CHOOSE i \in 1..Len(CodePoints) : CodePoints[i] = c

\* a < b on str
str_less(a, b) ==
    \E i \in 1..Len(b) :
        /\ \A j \in 1..(i - 1) : j <= Len(a) /\ a[j] = b[j]
        /\ \/ i = Len(a) + 1
           \/ i <= Len(a) /\ ord(a[i]) < ord(b[i])

\* sorted(names)
RECURSIVE sorted(_)
sorted(names) ==
    IF names = {} THEN <<>>
    ELSE LET least == CHOOSE x \in names : \A y \in names \ {x} : str_less(x, y)
         IN <<least>> \o sorted(names \ {least})

HookSuffix == <<".", "h", "o", "o", "k">>

DisabledSuffix == <<".", "d", "i", "s", "a", "b", "l", "e", "d">>

DispatcherHook == <<"d", "i", "s", "p", "a", "t", "c", "h", "e", "r", ".", "h", "o", "o", "k">>

DispatcherPy == <<"d", "i", "s", "p", "a", "t", "c", "h", "e", "r", ".", "p", "y">>

HookNames ==
    { <<"a", ".", "h", "o", "o", "k">>,
      <<"b", ".", "h", "o", "o", "k">>,
      <<"c", ".", "h", "o", "o", "k">> }

DisabledName == <<"b", ".", "h", "o", "o", "k", ".", "d", "i", "s", "a", "b", "l", "e", "d">>

DirName == <<"d", ".", "h", "o", "o", "k">>

FileNames == HookNames \cup {DisabledName, DirName, DispatcherHook, DispatcherPy}

Absent == [kind |-> "absent", usable |-> FALSE, rc |-> 0]

Directory == [kind |-> "dir", usable |-> FALSE, rc |-> 0]

Unusable == [kind |-> "file", usable |-> FALSE, rc |-> 0]

File(rc) == [kind |-> "file", usable |-> TRUE, rc |-> rc]

\* what the name of a hook may stand for: a hook exits with a code of
\* 0..MaxExit or is killed by signal 9
HookEntries == {Absent, Unusable, File(-9)} \cup {File(rc) : rc \in 0..MaxExit}

\* what another name stands for when it is in the directory
OtherEntry(name) == IF name = DirName THEN Directory ELSE File(1)

Directories ==
    { [n \in FileNames |->
          IF n \in HookNames THEN hooks[n]
          ELSE IF others[n] THEN OtherEntry(n) ELSE Absent] :
        hooks \in [HookNames -> HookEntries],
        others \in [FileNames \ HookNames -> BOOLEAN] }

\* the exit status of a process that calls sys.exit(code)
ExitStatus(code) == code % 256

\* hooks_dir.glob('*.hook')
glob_hook(dir) == {n \in FileNames : dir[n].kind # "absent" /\ endswith(n, HookSuffix)}

\* os.listdir(hook_dir)
listdir(dir) == {n \in FileNames : dir[n].kind # "absent"}

\* the test of dispatcher.py with `'.hook' in fname` for fname.endswith('.hook')
script_skips_unless_hook_in_name(fname) ==
    fname = DispatcherPy \/ ~contains(fname, HookSuffix)

\* dispatcher.py: `fname == 'dispatcher.py' or not fname.endswith('.hook')`
script_skips(fname) ==
    fname = DispatcherPy \/ ~endswith(fname, HookSuffix)

\* generated dispatcher: the three tests that end in `continue`
generated_skips(dir, name) ==
    \/ dir[name].kind # "file"
    \/ name = DispatcherHook
    \/ endswith(name, DisabledSuffix)

InitDispatcher ==
    /\ MintIdle
    /\ ValidatorLoaded
    /\ CliIdle
    /\ program \in {"generated", "script"}
    /\ entries \in Directories
    /\ hook_files = <<>>
    /\ executed = <<>>
    /\ replayed = <<>>
    /\ dpc = "start"
    /\ exit_status = 0
    /\ ToolsIdle

\* generated dispatcher: hook_files = sorted(hooks_dir.glob('*.hook'))
GenList ==
    /\ program = "generated"
    /\ dpc = "start"
    /\ hook_files' = sorted(glob_hook(entries))
    /\ dpc' = "loop"
    /\ UNCHANGED <<program, entries, executed, replayed, exit_status>>
    /\ UNCHANGED <<mintVars, valVars, cliVars, toolVars>>

\* GenStep that goes on to the next hook after a hook has failed
GenStepNoBreak ==
    /\ program = "generated"
    /\ dpc = "loop"
    /\ hook_files # <<>>
    /\ LET hook_file == Head(hook_files)
           result == entries[hook_file]
       IN IF generated_skips(entries, hook_file)
          THEN /\ hook_files' = Tail(hook_files)
               /\ UNCHANGED <<executed, replayed, dpc, exit_status>>
          ELSE IF ~result.usable
          THEN /\ exit_status' = ExitStatus(1)
               /\ dpc' = "exited"
               /\ UNCHANGED <<hook_files, executed, replayed>>
          ELSE /\ executed' = Append(executed, hook_file)
               /\ replayed' = IF result.rc # 0 THEN Append(replayed, hook_file) ELSE replayed
               /\ exit_status' = IF result.rc # 0 THEN ExitStatus(result.rc) ELSE exit_status
               /\ hook_files' = Tail(hook_files)
               /\ UNCHANGED dpc
    /\ UNCHANGED <<program, entries>>
    /\ UNCHANGED <<mintVars, valVars, cliVars, toolVars>>

\* GenStep that goes on to the next hook after an exception
GenStepSwallowsException ==
    /\ program = "generated"
    /\ dpc = "loop"
    /\ hook_files # <<>>
    /\ LET hook_file == Head(hook_files)
           result == entries[hook_file]
       IN IF generated_skips(entries, hook_file) \/ ~result.usable
          THEN /\ hook_files' = Tail(hook_files)
               /\ UNCHANGED <<executed, replayed, dpc, exit_status>>
          ELSE /\ executed' = Append(executed, hook_file)
               /\ IF result.rc # 0
                  THEN /\ replayed' = Append(replayed, hook_file)
                       /\ exit_status' = ExitStatus(result.rc)
                       /\ dpc' = "exited"
                       /\ UNCHANGED hook_files
                  ELSE /\ hook_files' = Tail(hook_files)
                       /\ UNCHANGED <<replayed, dpc, exit_status>>
    /\ UNCHANGED <<program, entries>>
    /\ UNCHANGED <<mintVars, valVars, cliVars, toolVars>>

\* generated dispatcher: one turn of the loop.  A name that is no file, is
\* dispatcher.hook or ends in .disabled is passed over; a hook that cannot
\* be read or launched raises, which ends the run with exit code 1; a hook
\* that returns non-zero has its output written and ends the run with its
\* returncode; after a hook that returns 0 the loop goes on.
GenStep ==
    /\ program = "generated"
    /\ dpc = "loop"
    /\ hook_files # <<>>
    /\ LET hook_file == Head(hook_files)
           result == entries[hook_file]
       IN IF generated_skips(entries, hook_file)
          THEN /\ hook_files' = Tail(hook_files)
               /\ UNCHANGED <<executed, replayed, dpc, exit_status>>
          ELSE IF ~result.usable
          THEN /\ exit_status' = ExitStatus(1)
               /\ dpc' = "exited"
               /\ UNCHANGED <<hook_files, executed, replayed>>
          ELSE /\ executed' = Append(executed, hook_file)
               /\ IF result.rc # 0
                  THEN /\ replayed' = Append(replayed, hook_file)
                       /\ exit_status' = ExitStatus(result.rc)
                       /\ dpc' = "exited"
                       /\ UNCHANGED hook_files
                  ELSE /\ hook_files' = Tail(hook_files)
                       /\ UNCHANGED <<replayed, dpc, exit_status>>
    /\ UNCHANGED <<program, entries>>
    /\ UNCHANGED <<mintVars, valVars, cliVars, toolVars>>

\* generated dispatcher: sys.exit(exit_code) after the loop
GenExit ==
    /\ program = "generated"
    /\ dpc = "loop"
    /\ hook_files = <<>>
    /\ exit_status' = ExitStatus(0)
    /\ dpc' = "exited"
    /\ UNCHANGED <<program, entries, hook_files, executed, replayed>>
    /\ UNCHANGED <<mintVars, valVars, cliVars, toolVars>>

\* dispatcher.py: sorted(os.listdir(hook_dir))
ScriptList ==
    /\ program = "script"
    /\ dpc = "start"
    /\ hook_files' = sorted(listdir(entries))
    /\ dpc' = "loop"
    /\ UNCHANGED <<program, entries, executed, replayed, exit_status>>
    /\ UNCHANGED <<mintVars, valVars, cliVars, toolVars>>

\* dispatcher.py: one turn of the loop.  A name that is dispatcher.py, does
\* not end in .hook or is no file is passed over; the hook is run with
\* sys.executable, which returns non-zero on a file it cannot read or run;
\* the output of the hook is written; a non-zero returncode ends the run.
ScriptStep ==
    /\ program = "script"
    /\ dpc = "loop"
    /\ hook_files # <<>>
    /\ LET fname == Head(hook_files)
           result == entries[fname]
       IN IF script_skips(fname) \/ result.kind # "file"
          THEN /\ hook_files' = Tail(hook_files)
               /\ UNCHANGED <<executed, replayed, dpc, exit_status>>
          ELSE \E returncode \in (IF result.usable THEN {result.rc} ELSE 1..MaxExit) :
                 /\ executed' = Append(executed, fname)
                 /\ replayed' = Append(replayed, fname)
                 /\ IF returncode # 0
                    THEN /\ exit_status' = ExitStatus(returncode)
                         /\ dpc' = "exited"
                         /\ UNCHANGED hook_files
                    ELSE /\ hook_files' = Tail(hook_files)
                         /\ UNCHANGED <<dpc, exit_status>>
    /\ UNCHANGED <<program, entries>>
    /\ UNCHANGED <<mintVars, valVars, cliVars, toolVars>>

\* dispatcher.py: sys.exit(exit_code) after the loop
ScriptExit ==
    /\ program = "script"
    /\ dpc = "loop"
    /\ hook_files = <<>>
    /\ exit_status' = ExitStatus(0)
    /\ dpc' = "exited"
    /\ UNCHANGED <<program, entries, hook_files, executed, replayed>>
    /\ UNCHANGED <<mintVars, valVars, cliVars, toolVars>>

NextDispatcher ==
    \/ GenList
    \/ GenStep
    \/ GenExit
    \/ ScriptList
    \/ ScriptStep
    \/ ScriptExit

SpecDispatcher == InitDispatcher /\ [][NextDispatcher]_vars

\* the file of the dispatcher itself
OwnName == IF program = "generated" THEN DispatcherHook ELSE DispatcherPy

\* the enabled hook files of the directory
EnabledHooks ==
    { n \in FileNames : entries[n].kind = "file" /\ endswith(n, HookSuffix) /\ n # OwnName }

IsPrefix(s, t) == Len(s) <= Len(t) /\ SubSeq(t, 1, Len(s)) = s

\* the hook named n exits with code 0 when it is run
ExitsZero(n) == entries[n].usable /\ entries[n].rc = 0

\* C18: the hooks executed are, in order, the first enabled hook files in
\* ascending order of their names; no hook is executed after one that did
\* not exit 0; and when the last hook executed exits with a non-zero code,
\* the dispatcher exits with that code.
C18_OrderAndShortCircuit ==
    /\ IsPrefix(executed, sorted(EnabledHooks))
    /\ \A x \in 1..(Len(executed) - 1) : ExitsZero(executed[x])
    /\ \A x \in 1..Len(executed) :
         (dpc = "exited" /\ entries[executed[x]].usable /\ entries[executed[x]].rc > 0)
         => (x = Len(executed) /\ exit_status = entries[executed[x]].rc)

\* a.hook exits 0, b.hook exits 1, c.hook exits 0: a and b have been run,
\* c has not, and the dispatcher has exited with 1
C18_Witness ==
    /\ dpc = "exited"
    /\ entries[<<"a", ".", "h", "o", "o", "k">>] = File(0)
    /\ entries[<<"b", ".", "h", "o", "o", "k">>] = File(1)
    /\ entries[<<"c", ".", "h", "o", "o", "k">>] = File(0)
    /\ executed = << <<"a", ".", "h", "o", "o", "k">>, <<"b", ".", "h", "o", "o", "k">> >>
    /\ exit_status = 1

\* C19: no file whose name ends in `.disabled` is ever executed.
C19_DisabledNeverExecuted ==
    \A x \in 1..Len(executed) : ~endswith(executed[x], DisabledSuffix)

\* b.hook.disabled is in the directory, and the dispatcher has run every
\* enabled hook and exited
C19_Witness ==
    /\ dpc = "exited"
    /\ entries[DisabledName].kind = "file"
    /\ executed # <<>>
    /\ exit_status = 0

Executed(n) == \E x \in 1..Len(executed) : executed[x] = n

\* C20: the generated dispatcher exits 0 if and only if every enabled hook
\* file of the directory was executed and exited 0; after a hook that fails
\* or cannot be read or launched no further hook is executed.
C20_ExitStatus ==
    (program = "generated" /\ dpc = "exited") =>
        /\ exit_status = 0 <=> \A n \in EnabledHooks : Executed(n) /\ ExitsZero(n)
        /\ \A n \in EnabledHooks :
             ~ExitsZero(n) =>
                 \A later \in EnabledHooks : str_less(n, later) => ~Executed(later)

\* the generated dispatcher has run a.hook, could not read or launch b.hook,
\* and has exited with a non-zero status without running c.hook
C20_Witness ==
    /\ program = "generated"
    /\ dpc = "exited"
    /\ entries[<<"b", ".", "h", "o", "o", "k">>] = Unusable
    /\ entries[<<"c", ".", "h", "o", "o", "k">>] = File(0)
    /\ executed = << <<"a", ".", "h", "o", "o", "k">> >>
    /\ exit_status # 0

\* C21: the captured output of every hook the dispatcher has run, whether
\* the hook exited 0 or not, has been written to the dispatcher's own stdout
\* and stderr.
C21_OutputReplayed ==
    \A x \in 1..Len(executed) :
        \E y \in 1..Len(replayed) : replayed[y] = executed[x]


(***************************************************************************)
(* install.py: GitHooksInstaller.install_local_hooks and                   *)
(* install_global_hooks                                                    *)
(***************************************************************************)

\* the number of times the installer runs
MaxRuns == 2

\* self.hook_types, three of its thirteen
hook_types == <<"commit-msg", "pre-commit", "pre-push">>

HookTypes == Range(hook_types)

NoFiles == [h \in HookTypes |-> "absent"]

\* The file systems an installer can meet: hook files need the hooks
\* directory, and the hooks directory .git/hooks of a local install needs
\* the directory .git.
FileSystems(global) ==
    {[git |-> g, hooks |-> FALSE, files |-> NoFiles] :
        g \in {"absent", "dir", "file"}}
    \cup {[git |-> g, hooks |-> TRUE, files |-> f] :
            g \in (IF global THEN {"absent", "dir", "file"} ELSE {"dir"}),
            f \in [HookTypes -> {"absent", "generated", "modified"}]}

is_git_repository(files) == files.git # "absent"

InitInstaller ==
    /\ MintIdle
    /\ ValidatorLoaded
    /\ CliIdle
    /\ DispatcherIdle
    /\ CacheIdle
    /\ PushIdle
    /\ global_install \in BOOLEAN
    /\ force \in BOOLEAN
    /\ source_dirs \in SUBSET HookTypes
    /\ fs \in FileSystems(global_install)
    /\ fs0 = fs
    /\ pending = <<>>
    /\ installed_count = 0
    /\ ipc = "start"
    /\ iresult = "none"
    /\ runs = 1

\* InstallLocalStart without the validation of the repository
InstallLocalStartUnvalidated ==
    /\ ipc = "start"
    /\ ~global_install
    /\ IF fs.git = "file"
          THEN /\ ipc' = "done"
               /\ iresult' = "raised"
               /\ UNCHANGED <<fs, pending, installed_count>>
          ELSE /\ fs' = [fs EXCEPT !.git = "dir", !.hooks = TRUE]
               /\ installed_count' = 0
               /\ pending' = hook_types
               /\ ipc' = "loop"
               /\ UNCHANGED iresult
    /\ UNCHANGED <<global_install, force, source_dirs, fs0, runs>>
    /\ UNCHANGED <<mintVars, valVars, cliVars, dispVars, cacheVars, pushVars>>

\* install_local_hooks up to its loop: the validation of the repository,
\* then hooks_dir.mkdir(parents=True, exist_ok=True), which raises when
\* .git is a file
InstallLocalStart ==
    /\ ipc = "start"
    /\ ~global_install
    /\ IF ~is_git_repository(fs)
          THEN /\ ipc' = "done"
               /\ iresult' = "False"
               /\ UNCHANGED <<fs, pending, installed_count>>
          ELSE IF fs.git = "file"
          THEN /\ ipc' = "done"
               /\ iresult' = "raised"
               /\ UNCHANGED <<fs, pending, installed_count>>
          ELSE /\ fs' = [fs EXCEPT !.hooks = TRUE]
               /\ installed_count' = 0
               /\ pending' = hook_types
               /\ ipc' = "loop"
               /\ UNCHANGED iresult
    /\ UNCHANGED <<global_install, force, source_dirs, fs0, runs>>
    /\ UNCHANGED <<mintVars, valVars, cliVars, dispVars, cacheVars, pushVars>>

\* install_global_hooks up to its loop: the directory is made, then
\* `git config --global core.hooksPath` is run, and may fail
InstallGlobalStart ==
    /\ ipc = "start"
    /\ global_install
    /\ fs' = [fs EXCEPT !.hooks = TRUE]
    /\ \E configured \in BOOLEAN :
          IF configured
             THEN /\ installed_count' = 0
                  /\ pending' = hook_types
                  /\ ipc' = "loop"
                  /\ UNCHANGED iresult
             ELSE /\ ipc' = "done"
                  /\ iresult' = "False"
                  /\ UNCHANGED <<pending, installed_count>>
    /\ UNCHANGED <<global_install, force, source_dirs, fs0, runs>>
    /\ UNCHANGED <<mintVars, valVars, cliVars, dispVars, cacheVars, pushVars>>

\* InstallHookType that overwrites an existing hook file whatever force is
InstallHookTypeOverwriting ==
    /\ ipc = "loop"
    /\ pending # <<>>
    /\ LET hook_type == Head(pending)
       IN  IF hook_type \notin source_dirs
              THEN UNCHANGED <<fs, installed_count>>
              ELSE /\ fs' = [fs EXCEPT !.files[hook_type] = "generated"]
                   /\ installed_count' = installed_count + 1
    /\ pending' = Tail(pending)
    /\ UNCHANGED <<global_install, force, source_dirs, fs0, ipc, iresult, runs>>
    /\ UNCHANGED <<mintVars, valVars, cliVars, dispVars, cacheVars, pushVars>>

\* one turn of the loop over self.hook_types, the same in both functions
InstallHookType ==
    /\ ipc = "loop"
    /\ pending # <<>>
    /\ LET hook_type == Head(pending)
       IN  IF hook_type \notin source_dirs
              THEN UNCHANGED <<fs, installed_count>>
              ELSE IF fs.files[hook_type] # "absent" /\ ~force
              THEN UNCHANGED <<fs, installed_count>>
              ELSE /\ fs' = [fs EXCEPT !.files[hook_type] = "generated"]
                   /\ installed_count' = installed_count + 1
    /\ pending' = Tail(pending)
    /\ UNCHANGED <<global_install, force, source_dirs, fs0, ipc, iresult, runs>>
    /\ UNCHANGED <<mintVars, valVars, cliVars, dispVars, cacheVars, pushVars>>

\* the loop of install_local_hooks
InstallLocalHook == ~global_install /\ InstallHookType

\* the loop of install_global_hooks
InstallGlobalHook == global_install /\ InstallHookType

\* after the loop: the count is reported and True returned
InstallReturn ==
    /\ ipc = "loop"
    /\ pending = <<>>
    /\ ipc' = "done"
    /\ iresult' = "True"
    /\ UNCHANGED <<global_install, force, source_dirs, fs, fs0, pending,
                   installed_count, runs>>
    /\ UNCHANGED <<mintVars, valVars, cliVars, dispVars, cacheVars, pushVars>>

\* The installer is run again on the same target, with or without force,
\* after the user has edited one of the hook files or none.
Reinstall ==
    /\ ipc = "done"
    /\ runs < MaxRuns
    /\ runs' = runs + 1
    /\ force' \in BOOLEAN
    /\ \E edited \in SUBSET HookTypes :
          /\ Cardinality(edited) <= 1
          /\ \A h \in edited : fs.files[h] # "absent"
          /\ fs' = [fs EXCEPT !.files =
                       [h \in HookTypes |->
                           IF h \in edited THEN "modified" ELSE fs.files[h]]]
    /\ fs0' = fs'
    /\ pending' = <<>>
    /\ installed_count' = 0
    /\ ipc' = "start"
    /\ iresult' = "none"
    /\ UNCHANGED <<global_install, source_dirs>>
    /\ UNCHANGED <<mintVars, valVars, cliVars, dispVars, cacheVars, pushVars>>

NextInstaller ==
    \/ InstallLocalStart
    \/ InstallGlobalStart
    \/ InstallLocalHook
    \/ InstallGlobalHook
    \/ InstallReturn
    \/ Reinstall

SpecInstaller == InitInstaller /\ [][NextInstaller]_vars

\* the hook files the run found in the target hooks directory
Existing == {h \in HookTypes : fs0.files[h] # "absent"}

\* the hook files the run has created
Created == {h \in HookTypes : fs0.files[h] = "absent" /\ fs.files[h] # "absent"}

\* C22: while and after install runs without force, locally or globally,
\* every hook file that was in the target hooks directory when the run
\* started has the content it had then, and the count of installed hooks
\* counts the hook files the run created and none of the existing ones.
C22_NoOverwriteWithoutForce ==
    (ipc \in {"loop", "done"} /\ ~force) =>
        /\ \A h \in Existing : fs.files[h] = fs0.files[h]
        /\ installed_count = Cardinality(Created)

\* a second run without force has returned True and has left alone a hook
\* file that the user had modified and that has a source directory
C22_Witness ==
    /\ ipc = "done"
    /\ iresult = "True"
    /\ runs = 2
    /\ ~force
    /\ \E h \in Existing \cap source_dirs : fs.files[h] = "modified"

\* C23: a local install on a path with no .git, with force or without, has
\* returned False once it is done, and there is then still no .git, no hooks
\* directory and no hook file.
C23_LocalInstallValidatesRepository ==
    (ipc = "done" /\ ~global_install /\ fs0.git = "absent") =>
        /\ iresult = "False"
        /\ fs = fs0
        /\ fs.git = "absent"
        /\ ~fs.hooks
        /\ \A h \in HookTypes : fs.files[h] = "absent"

\* a local install with force on a path with no .git, with source
\* directories to install from, is done
C23_Witness ==
    /\ ipc = "done"
    /\ ~global_install
    /\ fs0.git = "absent"
    /\ force
    /\ source_dirs # {}


(***************************************************************************)
(* githooks/core/runtime_detector.py: RuntimeCache                         *)
(***************************************************************************)

\* the last time of the clock, and the longest time to live
MaxClock == 2

MaxTtl == 2

Runtimes == {"bash", "python", "node"}

\* The paths a detector tries, in its order: BashDetector a common path and
\* then the fallback sh, PythonDetector sys.executable, NodeDetector the
\* node of PATH.
Candidates(runtime) ==
    CASE runtime = "bash" -> <<"/bin/bash", "/bin/sh">>
      [] runtime = "python" -> <<"/usr/bin/python3">>
      [] runtime = "node" -> <<"/usr/bin/node">>

Paths == UNION {Range(Candidates(r)) : r \in Runtimes}

\* BashDetector.detect, NodeDetector.detect: the first candidate that
\* exists, or None; PythonDetector.detect raises where this gives None
detect(runtime, existing) ==
    LET c == Candidates(runtime)
        found == {i \in 1..Len(c) : c[i] \in existing}
    IN  IF found = {} THEN NoPath
        ELSE c[CHOOSE i \in found : \A j \in found : i <= j]

_read_cache(runtime) == config[runtime]

_is_cache_valid ==
    /\ config.detectedAt # <<>>
    /\ now - config.detectedAt[1] < cache_ttl

_path_exists(path) == path \in disk

NoCall == [op |-> "none"]

InitCache ==
    /\ MintIdle
    /\ ValidatorLoaded
    /\ CliIdle
    /\ DispatcherIdle
    /\ InstallerIdle
    /\ PushIdle
    /\ cache_ttl \in 0..MaxTtl
    /\ now = 0
    /\ config = [bash |-> NoPath, python |-> NoPath, node |-> NoPath,
                 detectedAt |-> <<>>]
    /\ disk \in SUBSET Paths
    /\ written_at = [r \in Runtimes |-> <<>>]
    /\ ret = NoCall

\* what a call of get_bash_path, get_python_path or get_node_path leaves in
\* ret; get_python_path raises when PythonDetector.detect finds no path
Returned(runtime, force_detect, cached, path) ==
    [op |-> "get", runtime |-> runtime, force_detect |-> force_detect,
     at |-> now, cached_path |-> config[runtime],
     cached_existed |-> config[runtime] \in disk, valid |-> _is_cache_valid,
     cached |-> cached, path |-> path, existed |-> path \in disk,
     raised |-> (runtime = "python" /\ path = NoPath)]

\* _write_cache: the path under the runtime's key, the time under the one
\* key hooks.runtime.detectedAt
_write_cache(runtime, path) ==
    /\ config' = [config EXCEPT ![runtime] = path, !.detectedAt = <<now>>]
    /\ written_at' = [written_at EXCEPT ![runtime] = <<now>>]

\* GetPath that answers from the cache without looking at the disk
GetPathUnchecked(runtime, force_detect) ==
    LET cached_path == _read_cache(runtime)
        hit == /\ ~force_detect
               /\ cached_path # NoPath
               /\ _is_cache_valid
        detected_path == detect(runtime, disk)
    IN  /\ IF hit
              THEN /\ ret' = Returned(runtime, force_detect, TRUE, cached_path)
                   /\ UNCHANGED <<config, written_at>>
              ELSE /\ ret' = Returned(runtime, force_detect, FALSE, detected_path)
                   /\ IF detected_path # NoPath
                         THEN _write_cache(runtime, detected_path)
                         ELSE UNCHANGED <<config, written_at>>
        /\ UNCHANGED <<cache_ttl, now, disk>>
        /\ UNCHANGED <<mintVars, valVars, cliVars, dispVars, instVars, pushVars>>

\* the body shared by get_bash_path, get_python_path and get_node_path:
\* the cached path when there is one, the cache is valid and the path
\* exists; else the detector's path, written to the cache when found
GetPath(runtime, force_detect) ==
    LET cached_path == _read_cache(runtime)
        hit == /\ ~force_detect
               /\ cached_path # NoPath
               /\ _is_cache_valid
               /\ _path_exists(cached_path)
        detected_path == detect(runtime, disk)
    IN  /\ IF hit
              THEN /\ ret' = Returned(runtime, force_detect, TRUE, cached_path)
                   /\ UNCHANGED <<config, written_at>>
              ELSE /\ ret' = Returned(runtime, force_detect, FALSE, detected_path)
                   /\ IF detected_path # NoPath
                         THEN _write_cache(runtime, detected_path)
                         ELSE UNCHANGED <<config, written_at>>
        /\ UNCHANGED <<cache_ttl, now, disk>>
        /\ UNCHANGED <<mintVars, valVars, cliVars, dispVars, instVars, pushVars>>

GetBashPath == \E force_detect \in BOOLEAN : GetPath("bash", force_detect)

GetPythonPath == \E force_detect \in BOOLEAN : GetPath("python", force_detect)

GetNodePath == \E force_detect \in BOOLEAN : GetPath("node", force_detect)

\* invalidate: the four keys are unset
Invalidate ==
    /\ ret # NoCall
    /\ config' = [bash |-> NoPath, python |-> NoPath, node |-> NoPath,
                  detectedAt |-> <<>>]
    /\ written_at' = [r \in Runtimes |-> <<>>]
    /\ ret' = [op |-> "invalidate"]
    /\ UNCHANGED <<cache_ttl, now, disk>>
    /\ UNCHANGED <<mintVars, valVars, cliVars, dispVars, instVars, pushVars>>

\* time passes
Tick ==
    /\ ret # NoCall
    /\ now < MaxClock
    /\ now' = now + 1
    /\ UNCHANGED <<cache_ttl, config, disk, written_at, ret>>
    /\ UNCHANGED <<mintVars, valVars, cliVars, dispVars, instVars, pushVars>>

\* a program is removed from the disk, or installed
DiskChange ==
    /\ ret # NoCall
    /\ \E path \in Paths :
          disk' = IF path \in disk THEN disk \ {path} ELSE disk \cup {path}
    /\ UNCHANGED <<cache_ttl, now, config, written_at, ret>>
    /\ UNCHANGED <<mintVars, valVars, cliVars, dispVars, instVars, pushVars>>

NextCache ==
    \/ GetBashPath
    \/ GetPythonPath
    \/ GetNodePath
    \/ Invalidate
    \/ Tick
    \/ DiskChange

SpecCache == InitCache /\ [][NextCache]_vars

\* C24: the last call of get_bash_path, get_python_path or get_node_path
\* without force_detect, if it answered from the cache, returned a path that
\* existed on disk at the time of the call; and if the cached path did not
\* exist then, the call did not answer from the cache but ran the detector,
\* so that any path it returned existed.
C24_NeverReturnsVanishedPath ==
    (ret.op = "get" /\ ~ret.force_detect) =>
        /\ ret.cached => (ret.path = ret.cached_path /\ ret.existed)
        /\ (ret.cached_path # NoPath /\ ~ret.cached_existed) => ~ret.cached
        /\ ret.path # NoPath => ret.existed

\* a get without force_detect, made while the cache was valid and held for
\* its runtime a path that had vanished, has run the detector and returned
\* another path
C24_Witness ==
    /\ ret.op = "get"
    /\ ~ret.force_detect
    /\ ret.valid
    /\ ret.cached_path = "/bin/bash"
    /\ ~ret.cached_existed
    /\ ~ret.cached
    /\ ret.path = "/bin/sh"
    /\ ret.existed

\* C25: the last call get_X_path without force_detect, if it answered from
\* the cache, was made less than cache_ttl after the path of runtime X was
\* detected and written.
C25_EntryExpiresAfterTtl ==
    (ret.op = "get" /\ ~ret.force_detect /\ ret.cached) =>
        /\ written_at[ret.runtime] # <<>>
        /\ ret.at - written_at[ret.runtime][1] < cache_ttl


(***************************************************************************)
(* githooks/core/github_utils.py: create_and_push_branch                   *)
(***************************************************************************)

\* the largest max_retries
MaxRetries == 4

transient_errors ==
    <<<<"c", "o", "n", "n", "e", "c", "t", "i", "o", "n", " ", "r", "e", "f", "u", "s", "e", "d">>,
      <<"c", "o", "n", "n", "e", "c", "t", "i", "o", "n", " ", "r", "e", "s", "e", "t">>,
      <<"t", "i", "m", "e", "o", "u", "t">>,
      <<"n", "e", "t", "w", "o", "r", "k", " ", "i", "s", " ", "u", "n", "r", "e", "a", "c", "h", "a", "b", "l", "e">>,
      <<"t", "e", "m", "p", "o", "r", "a", "r", "y", " ", "f", "a", "i", "l", "u", "r", "e">>,
      <<"s", "s", "h", "_", "e", "x", "c", "h", "a", "n", "g", "e", "_", "i", "d", "e", "n", "t", "i", "f", "i", "c", "a", "t", "i", "o", "n">>>>

\* What `git push -u origin <branch>` can answer: its return code, its
\* output, and what happened (kind): the push went through, the remote said
\* the branch is there already, the connection was reset, or the remote
\* denied the permission.
PushResults ==
    {[returncode |-> 0, stdout |-> <<>>, stderr |-> <<>>, kind |-> "pushed"],
     [returncode |-> 1, stdout |-> <<>>, kind |-> "exists",
      stderr |-> <<"e", "r", "r", "o", "r", ":", " ", "b", "r", "a", "n", "c", "h", " ", "a", "l", "r", "e", "a", "d", "y", " ", "e", "x", "i", "s", "t", "s">>],
     [returncode |-> 1, stdout |-> <<>>, kind |-> "transient",
      stderr |-> <<"f", "a", "t", "a", "l", ":", " ", "C", "o", "n", "n", "e", "c", "t", "i", "o", "n", " ", "r", "e", "s", "e", "t", " ", "b", "y", " ", "p", "e", "e", "r">>],
     [returncode |-> 1, stdout |-> <<>>, kind |-> "denied",
      stderr |-> <<"f", "a", "t", "a", "l", ":", " ", "P", "e", "r", "m", "i", "s", "s", "i", "o", "n", " ", "d", "e", "n", "i", "e", "d">>]}

\* What `git ls-remote --heads origin <branch>` can answer: the line of the
\* branch, nothing when the remote has no such branch, or a failure.
LsRemoteResults ==
    {[returncode |-> 0, listed |-> TRUE,
      stdout |-> <<"a", "b", "c", "\t", "r", "e", "f", "s", "/", "h", "e", "a", "d", "s", "/", "b", "\n">>],
     [returncode |-> 0, listed |-> FALSE, stdout |-> <<>>],
     [returncode |-> 1, listed |-> FALSE, stdout |-> <<>>]}

\* the known success conditions of a push that returned non-zero
known_success(result_push) ==
    LET combined == lower(result_push.stderr) \o lower(result_push.stdout)
    IN  \/ contains(combined, <<"a", "l", "r", "e", "a", "d", "y", " ", "e", "x", "i", "s", "t", "s">>)
        \/ contains(combined, <<"u", "p", "-", "t", "o", "-", "d", "a", "t", "e">>)
        \/ /\ contains(combined, <<"r", "e", "j", "e", "c", "t", "e", "d">>)
           /\ contains(combined, <<"f", "a", "s", "t", "-", "f", "o", "r", "w", "a", "r", "d">>)

is_transient(result_push) ==
    \E i \in DOMAIN transient_errors :
        contains(lower(result_push.stderr), transient_errors[i])

\* wait_time that doubles once too often
wait_time_from_two(n) == 2 ^ n

\* wait_time = 2 ** (attempt - 1)
wait_time(n) == 2 ^ (n - 1)

\* branch_on_remote that takes the return code alone
branch_on_remote_by_status(verify_remote) == verify_remote.returncode = 0

\* verify_remote.returncode == 0 and verify_remote.stdout.strip()
branch_on_remote(verify_remote) ==
    /\ verify_remote.returncode = 0
    /\ strip(verify_remote.stdout) # <<>>

InitPush ==
    /\ MintIdle
    /\ ValidatorLoaded
    /\ CliIdle
    /\ DispatcherIdle
    /\ InstallerIdle
    /\ CacheIdle
    /\ max_retries \in 0..MaxRetries
    /\ push_attempt = 0
    /\ events = <<>>
    /\ ppc = "create"
    /\ presult = "none"

\* The branch is checked out, after being created unless `git rev-parse
\* --verify` finds it; a checkout that fails raises CalledProcessError, and
\* the function returns False.
CreateBranch ==
    /\ ppc = "create"
    /\ \E exists_locally \in BOOLEAN, checked_out \in BOOLEAN :
          /\ events' = Append(events, [what |-> "create",
                                       exists_locally |-> exists_locally,
                                       checked_out |-> checked_out])
          /\ IF checked_out
                THEN /\ ppc' = "push"
                     /\ UNCHANGED presult
                ELSE /\ ppc' = "returned"
                     /\ presult' = "False"
    /\ UNCHANGED <<max_retries, push_attempt>>
    /\ UNCHANGED <<mintVars, valVars, cliVars, dispVars, instVars, cacheVars>>

Push(n, result_push) == [what |-> "push", n |-> n, kind |-> result_push.kind]

Sleep(seconds) == [what |-> "sleep", seconds |-> seconds]

LsRemote(verify_remote) == [what |-> "ls-remote", listed |-> verify_remote.listed]

\* one turn of the loop `for attempt in range(1, max_retries + 1)`
PushAttempt ==
    /\ ppc = "push"
    /\ push_attempt < max_retries
    /\ push_attempt' = push_attempt + 1
    /\ \E result_push \in PushResults :
          LET pushed == Append(events, Push(push_attempt', result_push))
          IN  IF result_push.returncode = 0 \/ known_success(result_push)
                 THEN /\ events' = pushed
                      /\ ppc' = "returned"
                      /\ presult' = "True"
                 ELSE IF is_transient(result_push) /\ push_attempt' < max_retries
                 THEN /\ events' = Append(pushed, Sleep(wait_time(push_attempt')))
                      /\ UNCHANGED <<ppc, presult>>
                 ELSE IF push_attempt' = max_retries
                 THEN \E verify_remote \in LsRemoteResults :
                         /\ events' = Append(pushed, LsRemote(verify_remote))
                         /\ IF branch_on_remote(verify_remote)
                               THEN /\ ppc' = "returned"
                                    /\ presult' = "True"
                               ELSE UNCHANGED <<ppc, presult>>
                 ELSE /\ events' = pushed
                      /\ UNCHANGED <<ppc, presult>>
    /\ UNCHANGED max_retries
    /\ UNCHANGED <<mintVars, valVars, cliVars, dispVars, instVars, cacheVars>>

\* the loop is over: return False
PushReturn ==
    /\ ppc = "push"
    /\ push_attempt >= max_retries
    /\ ppc' = "returned"
    /\ presult' = "False"
    /\ UNCHANGED <<max_retries, push_attempt, events>>
    /\ UNCHANGED <<mintVars, valVars, cliVars, dispVars, instVars, cacheVars>>

NextPush ==
    \/ CreateBranch
    \/ PushAttempt
    \/ PushReturn

SpecPush == InitPush /\ [][NextPush]_vars

\* the places of the events of one sort
Places(what) == {i \in 1..Len(events) : events[i].what = what}

\* C26: the call has made at most max_retries push attempts, numbered from
\* 1; every sleep comes right after a push attempt n < max_retries that met
\* a transient failure, and lasts 2^(n-1) seconds; every such attempt is
\* followed by that sleep; and no sleep is the last thing a call that has
\* returned did.
C26_BoundedExponentialBackoff ==
    /\ Cardinality(Places("push")) <= max_retries
    /\ \A i \in Places("push") :
          /\ events[i].n = Cardinality({j \in Places("push") : j <= i})
          /\ (events[i].kind = "transient" /\ events[i].n < max_retries) =>
                /\ i < Len(events)
                /\ events[i + 1].what = "sleep"
    /\ \A i \in Places("sleep") :
          /\ events[i - 1].what = "push"
          /\ events[i - 1].kind = "transient"
          /\ events[i - 1].n < max_retries
          /\ events[i].seconds = 2 ^ (events[i - 1].n - 1)
          /\ ppc = "returned" => i < Len(events)

\* the call has slept 1, 2 and 4 seconds after three transient failures and
\* has then returned
C26_Witness ==
    /\ ppc = "returned"
    /\ \E i, j, k \in Places("sleep") :
          /\ i < j
          /\ j < k
          /\ events[i].seconds = 1
          /\ events[j].seconds = 2
          /\ events[k].seconds = 4

\* C27: a push attempt that fails with a permission error is the last push
\* attempt of the call; a push attempt is followed by another only if it
\* met a transient failure.
C27_OnlyTransientRetried ==
    \A i, j \in Places("push") : i < j => events[i].kind = "transient"

\* C28: a call that has returned False after a push attempt ran git
\* ls-remote after its last push attempt, as the last thing it did, and the
\* branch was not listed; and a call whose git ls-remote listed the branch
\* has returned True.
C28_FinalExistenceCheck ==
    /\ (ppc = "returned" /\ presult = "False" /\ Places("push") # {}) =>
          /\ events[Len(events)].what = "ls-remote"
          /\ ~events[Len(events)].listed
          /\ events[Len(events) - 1].what = "push"
    /\ \A i \in Places("ls-remote") :
          /\ events[i].listed => (ppc = "returned" /\ presult = "True")
          /\ ~events[i].listed => presult # "True"

\* the call has returned False after a last push attempt that failed and a
\* git ls-remote that did not list the branch
C28_Witness ==
    /\ ppc = "returned"
    /\ presult = "False"
    /\ Places("ls-remote") # {}


(***************************************************************************)
(* validate_commit_message: the one-time install, and the linter's verdict *)
(***************************************************************************)

\* C29: over the calls of validate_commit_message of one process,
\* ensure_commitlint_installed is called at most once; a call that finds
\* node and npm leaves _COMMITLINT_CHECKED true; and once it is true it
\* stays true and no call attempts an install.
C29_InstallAttemptedOnce ==
    [][/\ installs' <= 1
       /\ (validations' > validations /\ venv'.node /\ venv'.npm) =>
             COMMITLINT_CHECKED'
       /\ COMMITLINT_CHECKED =>
             (COMMITLINT_CHECKED' /\ installs' = installs)]_vars

\* a second call found node and npm, no commitlint, and
\* COMMITMINT_SKIP_INSTALL unset, and no install has ever been attempted:
\* the first call had set _COMMITLINT_CHECKED
C29_Witness ==
    /\ validations = 2
    /\ COMMITLINT_CHECKED
    /\ installs = 0
    /\ venv.node
    /\ venv.npm
    /\ ~venv.commitlint
    /\ ~venv.skip

\* C30: a call of validate_commit_message that found commitlint and ran
\* it without an OSError or SubprocessError returned (True, []), whatever
\* the message and the return code of the linter; a call that reports a
\* missing type or a missing ticket found no commitlint, or its run raised;
\* and a call that found no commitlint, or whose run of it raised, reports
\* what the type rule and the ticket rule find in the message.
C30_LinterPresenceDecides ==
    validations > 0 =>
        /\ (venv.commitlint /\ ~venv.raises) => vresult = <<TRUE, <<>>>>
        /\ (Reports(MissingType) \/ Reports(MissingTicket)) =>
              (~venv.commitlint \/ venv.raises)
        /\ (~venv.commitlint \/ venv.raises) =>
              /\ Reports(MissingType) <=> ~has_conventional_type(vmsg)
              /\ Reports(MissingTicket) <=>
                    extract_ticket_from_header_or_body(vmsg) = NoTicket
              /\ Reports(ExecutionError) <=> venv.raises
              /\ vresult[1] <=> (vresult[2] = <<>>)

\* the linter ran and returned non-zero on a message with no type and no
\* ticket, and the call returned ok
C30_Witness ==
    /\ validations > 0
    /\ venv.commitlint
    /\ ~venv.raises
    /\ venv.returncode = 1
    /\ ~has_conventional_type(vmsg)
    /\ ~HasTicketShape(vmsg)
    /\ vresult[1]

=============================================================================
